---- MODULE Spec2Model ----
(***************************************************************************)
(* Model of the dashboard's rule-pause override logic (src/src/App.tsx)    *)
(* together with the device API it calls (src/unnamed/part_003).           *)
(*                                                                         *)
(* The client is a single-threaded event loop: every handler runs until    *)
(* its next await, so one action of the model is one such run (a click, a  *)
(* timer tick, or the continuation after one awaited call has completed),  *)
(* followed by the re-render and the effects the state change triggers.    *)
(***************************************************************************)
EXTENDS Integers, Sequences, FiniteSets, TLC

\* ---------------------------------------------------------------- bounds
MaxTime == 1          \* the clock runs over 0..MaxTime (minutes)
MaxTasks == 2         \* async calls that may be in flight at once
MaxRules == 3         \* rules in a list whose effective brightness is asked
MaxCaptures == 2      \* actions the Resume Gate may capture in one run

\* ------------------------------------------------------------- constants
Null == -1            \* null of a number-or-null field
Undefined == -2       \* a key that a response body does not have
ClockOrigin == 9 * 60 + 15   \* wall clock at instant 0, minutes since midnight (09:15)
LightMinutesMax == 1440
LightMinutesDefault == 60
PumpMinutesMax == 120
PumpMinutesDefault == 5
ShortIntervalMs == 5000
BaseIntervalMs == 30000
FullSpeed == 100

VARIABLES
    token,                  \* TRUE iff a session token is held
    now,                    \* the current instant (what new Date() returns)
    rules,                  \* cached rule list
    lightRulesPausedUntil,  \* cached pause instant of the light class, or Null
    pumpRulesPausedUntil,   \* cached pause instant of the pump class, or Null
    rulesError,             \* message of the last failed rules fetch, or "none"
    state,                  \* cached sensor snapshot
    error,                  \* the error banner, or "none"
    lightOverrideModal,     \* [open, action, minutes]
    pumpManualModal,        \* [open, minutes]
    resumeModal,            \* [open, type, pausedUntil]
    pendingResumeActionRef, \* the captured action, or NoAction
    timer,                  \* the polling interval: [on, intervalMs, paused]
    tasks,                  \* async workflows awaiting a device call
    remoteLightPausedUntil, \* the device's light pause instant, or Null
    remotePumpPausedUntil,  \* the device's pump pause instant, or Null
    captured,               \* number of actions captured by the gate so far
    execCount,              \* how often each captured action has been run
    discarded,              \* captured actions that were replaced or dismissed
    lastReturn,             \* the awaited call that returned in the last step
    mounted,                \* TRUE while the App component is mounted
    probe                   \* arguments and result of a pure function's call

vars == <<token, now, rules, lightRulesPausedUntil, pumpRulesPausedUntil,
          rulesError, state, error, lightOverrideModal, pumpManualModal,
          resumeModal, pendingResumeActionRef, timer, tasks,
          remoteLightPausedUntil, remotePumpPausedUntil,
          captured, execCount, discarded, lastReturn, mounted, probe>>

\* ------------------------------------------------------ time and rules
\* An "HH:MM" string is the pair <<h, m>> of its two number fields.
HHMM(mins) == <<(mins % 1440) \div 60, mins % 60>>

getCurrentCentralHHMM == HHMM(ClockOrigin + now)

hhmmToMinutes(hhmm) == hhmm[1] * 60 + hhmm[2]

NoTime == <<>>        \* end_time null, undefined or ""

\* (variant: the end minute itself counts as inside a same-day range)
isTimeInRangeEndInclusive(nowS, start, end) ==
    IF end = NoTime THEN nowS = start
    ELSE LET nowM == hhmmToMinutes(nowS)
             startM == hhmmToMinutes(start)
             endM == hhmmToMinutes(end)
         IN IF endM > startM THEN nowM >= startM /\ nowM <= endM
            ELSE nowM >= startM \/ nowM < endM

\* (variant: a range that wraps past midnight needs both ends at once)
isTimeInRangeNoWrap(nowS, start, end) ==
    IF end = NoTime THEN nowS = start
    ELSE LET nowM == hhmmToMinutes(nowS)
             startM == hhmmToMinutes(start)
             endM == hhmmToMinutes(end)
         IN IF endM > startM THEN nowM >= startM /\ nowM < endM
            ELSE nowM >= startM /\ nowM < endM

\* (variant: a rule without an end stays on from its start until midnight)
isTimeInRangeOpenEnded(nowS, start, end) ==
    IF end = NoTime THEN hhmmToMinutes(nowS) >= hhmmToMinutes(start)
    ELSE LET nowM == hhmmToMinutes(nowS)
             startM == hhmmToMinutes(start)
             endM == hhmmToMinutes(end)
         IN IF endM > startM THEN nowM >= startM /\ nowM < endM
            ELSE nowM >= startM \/ nowM < endM

isTimeInRange(nowS, start, end) ==
    IF end = NoTime THEN nowS = start
    ELSE LET nowM == hhmmToMinutes(nowS)
             startM == hhmmToMinutes(start)
             endM == hhmmToMinutes(end)
         IN IF endM > startM THEN nowM >= startM /\ nowM < endM
            ELSE nowM >= startM \/ nowM < endM

Max(a, b) == IF a >= b THEN a ELSE b
Min(a, b) == IF a <= b THEN a ELSE b

\* (variant: a paused rule still counts)
RECURSIVE EffectiveFromCountsPaused(_, _, _, _)
EffectiveFromCountsPaused(rs, i, nowS, maxBrightness) ==
    IF i > Len(rs) THEN maxBrightness
    ELSE LET r == rs[i]
         IN IF r.type # "light" \/ r.enabled = "false"
            THEN EffectiveFromCountsPaused(rs, i + 1, nowS, maxBrightness)
            ELSE IF isTimeInRange(nowS, r.start_time, r.end_time)
                 THEN LET b == IF r.brightness_pct = Null THEN 0 ELSE r.brightness_pct
                      IN EffectiveFromCountsPaused(rs, i + 1, nowS,
                            IF maxBrightness = Null THEN b ELSE Max(maxBrightness, b))
                 ELSE EffectiveFromCountsPaused(rs, i + 1, nowS, maxBrightness)

\* (variant: the last active rule of the list decides)
RECURSIVE EffectiveFromLastWins(_, _, _, _)
EffectiveFromLastWins(rs, i, nowS, maxBrightness) ==
    IF i > Len(rs) THEN maxBrightness
    ELSE LET r == rs[i]
         IN IF r.type # "light" \/ r.enabled = "false" \/ r.paused = "true"
            THEN EffectiveFromLastWins(rs, i + 1, nowS, maxBrightness)
            ELSE IF isTimeInRange(nowS, r.start_time, r.end_time)
                 THEN LET b == IF r.brightness_pct = Null THEN 0 ELSE r.brightness_pct
                      IN EffectiveFromLastWins(rs, i + 1, nowS, b)
                 ELSE EffectiveFromLastWins(rs, i + 1, nowS, maxBrightness)

RECURSIVE EffectiveFrom(_, _, _, _)
EffectiveFrom(rs, i, nowS, maxBrightness) ==
    IF i > Len(rs) THEN maxBrightness
    ELSE LET r == rs[i]
         IN IF r.type # "light" \/ r.enabled = "false" \/ r.paused = "true"
            THEN EffectiveFrom(rs, i + 1, nowS, maxBrightness)
            ELSE IF isTimeInRange(nowS, r.start_time, r.end_time)
                 THEN LET b == IF r.brightness_pct = Null THEN 0 ELSE r.brightness_pct
                      IN EffectiveFrom(rs, i + 1, nowS,
                            IF maxBrightness = Null THEN b ELSE Max(maxBrightness, b))
                 ELSE EffectiveFrom(rs, i + 1, nowS, maxBrightness)

\* (variant: the running maximum starts at 0, so "no rule" reads as "off")
getEffectiveLightBrightnessFromZero(rs) ==
    EffectiveFrom(rs, 1, getCurrentCentralHHMM, 0)

\* Null when no rule is active, else the largest brightness wanted right now.
getEffectiveLightBrightnessFromRules(rs) ==
    EffectiveFrom(rs, 1, getCurrentCentralHHMM, Null)

PumpRule(time, minutes) ==
    [type |-> "pump", enabled |-> "true", paused |-> "false",
     time |-> time, duration_minutes |-> minutes]

LightRule(start, end, pct) ==
    [type |-> "light", enabled |-> "true", paused |-> "false",
     start_time |-> start, end_time |-> end, brightness_pct |-> pct]

\* Rule lists the device may report: none, "off all morning", "on all morning".
RuleLists == { <<>>,
               << LightRule(<<8, 0>>, <<10, 0>>, 0) >>,
               << LightRule(<<8, 0>>, <<10, 0>>, 80) >> }

\* (variant: any stored instant counts as a pause, whatever the time)
isPausedWhenSet(pausedUntil) == pausedUntil # Null

isPausedInFuture(pausedUntil) ==
    IF pausedUntil = Null THEN FALSE ELSE pausedUntil > now

\* ------------------------------------------------- the duration input
\* The text of the minutes field is a sequence of characters.
Digits == <<"0", "1", "2", "3", "4", "5", "6", "7", "8", "9">>
IsDigit(c) == \E d \in 1..10 : Digits[d] = c
DigitVal(c) == (CHOOSE d \in 1..10 : Digits[d] = c) - 1

RECURSIVE SkipSpaces(_)
SkipSpaces(s) == IF s # <<>> /\ Head(s) = " " THEN SkipSpaces(Tail(s)) ELSE s

RECURSIVE LeadingDigits(_, _, _)
LeadingDigits(s, acc, seen) ==
    IF s # <<>> /\ IsDigit(Head(s))
    THEN LeadingDigits(Tail(s), acc * 10 + DigitVal(Head(s)), TRUE)
    ELSE [nan |-> ~seen, val |-> acc]

\* parseInt(text, 10): [nan |-> TRUE] when no digit follows the optional sign.
parseInt(text) ==
    LET s == SkipSpaces(text)
        neg == s # <<>> /\ Head(s) = "-"
        body == IF s # <<>> /\ Head(s) \in {"-", "+"} THEN Tail(s) ELSE s
        r == LeadingDigits(body, 0, FALSE)
    IN [nan |-> r.nan, val |-> IF neg THEN 0 - r.val ELSE r.val]

\* (variant: the result is capped from above only)
ResolveMinutesNoFloor(text, hi, dflt) ==
    LET p == parseInt(text)
        n == IF p.nan \/ p.val = 0 THEN dflt ELSE p.val
    IN Min(hi, n)

\* Math.max(1, Math.min(hi, parseInt(text, 10) || dflt))
ResolveMinutes(text, hi, dflt) ==
    LET p == parseInt(text)
        n == IF p.nan \/ p.val = 0 THEN dflt ELSE p.val
    IN Max(1, Min(hi, n))

\* The text the minutes field holds once the user has typed the integer n.
RECURSIVE DigitsOf(_)
DigitsOf(n) ==
    IF n < 10 THEN <<Digits[n + 1]>>
    ELSE DigitsOf(n \div 10) \o <<Digits[(n % 10) + 1]>>

TextOf(n) == IF n < 0 THEN <<"-">> \o DigitsOf(0 - n) ELSE DigitsOf(n)

Text60 == <<"6", "0">>
Text5 == <<"5">>
LightMinuteTexts == {Text60, <<"1">>}
PumpMinuteTexts == {Text5, <<"1">>}

\* ------------------------------------------------------------ device API
Failures == {"net", "http", "unauth"}
Outcomes == {"ok"} \cup Failures

\* e.message of the Error that request() / fetch() throws
ErrMessage(res) ==
    CASE res = "net" -> "Failed to fetch"
      [] res = "http" -> "API 500"
      [] res = "unauth" -> "API 401"

ActuatorCalls == {"lightOn", "lightOff", "setLightBrightness",
                  "setPumpSpeed", "pumpOn", "pumpOff"}
PauseCalls == {"pauseLightRulesForMinutes", "pausePumpRulesForMinutes"}
ResumeCalls == {"resumeLightRules", "resumePumpRules"}

\* The device calls each workflow awaits, in order.  "fetchRules" and
\* "fetchAll" stand for the awaited helper, which catches its own errors.
handleLightOnCalls == <<"lightOn", "fetchAll">>
handleLightOffCalls == <<"lightOff", "fetchAll">>
handleLightBrightnessCalls == <<"setLightBrightness", "fetchAll">>
handlePumpOnCalls == <<"setPumpSpeed", "pumpOn", "fetchAll">>
handlePumpOffCalls == <<"pumpOff", "fetchAll">>

\* (variant: the light command goes out before the pause request)
confirmLightOverrideActsFirst(action) ==
    <<IF action = "on" THEN "lightOn" ELSE "lightOff",
      "pauseLightRulesForMinutes", "fetchRules", "fetchAll">>

confirmLightOverrideCalls(action) ==
    <<"pauseLightRulesForMinutes", "fetchRules",
      IF action = "on" THEN "lightOn" ELSE "lightOff", "fetchAll">>

confirmPumpManualCalls ==
    <<"pausePumpRulesForMinutes", "setManualPumpOffInMinutes", "fetchRules",
      "setPumpSpeed", "pumpOn", "fetchAll">>

\* (variant: the rules are re-fetched before the resume request)
confirmResumeModalFetchesFirst(type) ==
    <<"fetchRules",
      IF type = "light" THEN "resumeLightRules" ELSE "resumePumpRules">>

\* the awaited part of confirmResumeModal(true); runPending follows it
confirmResumeModalCalls(type) ==
    <<IF type = "light" THEN "resumeLightRules" ELSE "resumePumpRules",
      "fetchRules">>

Prog(wf, arg) ==
    CASE wf = "handleLightOn" -> handleLightOnCalls
      [] wf = "handleLightOff" -> handleLightOffCalls
      [] wf = "handleLightBrightness" -> handleLightBrightnessCalls
      [] wf = "handlePumpOn" -> handlePumpOnCalls
      [] wf = "handlePumpOff" -> handlePumpOffCalls
      [] wf = "confirmLightOverride" -> confirmLightOverrideCalls(arg)
      [] wf = "confirmPumpManual" -> confirmPumpManualCalls
      [] wf = "confirmResumeModal" -> confirmResumeModalCalls(arg)
      [] wf = "fetchRules" -> <<"fetchRules">>
      [] wf = "fetchAll" -> <<"fetchAll">>

NoResp == [served |-> FALSE, rules |-> <<>>, light |-> Null, pump |-> Null]

\* A workflow suspended at an await.  log holds the calls that have returned,
\* resp the body of a rules response that is on its way back, forId the
\* captured action the resume dialog was showing when the workflow began.
NewTask(wf, arg, minutes, forId) ==
    [wf |-> wf, arg |-> arg, minutes |-> minutes, log |-> <<>>,
     resp |-> NoResp, forId |-> forId]

CurrentCall(t) == Prog(t.wf, t.arg)[Len(t.log) + 1]

Returned(t, c) == \E k \in 1..Len(t.log) : t.log[k] = <<c, "ok">>

RemoveAt(s, i) == SubSeq(s, 1, i - 1) \o SubSeq(s, i + 1, Len(s))

\* --------------------------------------------------- the Resume Gate's cell
NoAction == [fn |-> "null", id |-> 0, rules |-> <<>>, pumpSpeed |-> Null]

\* An action closure: the handler of the render in which the control was
\* clicked, with the rules and pump speed that render saw.
Action(fn, id) == [fn |-> fn, id |-> id, rules |-> rules, pumpSpeed |-> state.pumpSpeed]

\* (variant: an action already waiting in the cell is kept, first wins)
CaptureFirstWins(fn, id) ==
    IF pendingResumeActionRef.fn = "null" THEN Action(fn, id)
    ELSE pendingResumeActionRef

\* What runOrShowResume* stores in the cell when it shows the dialog for fn;
\* id numbers the captures.
Capture(fn, id) == Action(fn, id)

LightHandlers == {"handleLightOn", "handleLightOff", "handleLightBrightness"}
PumpHandlers == {"handlePumpOn", "handlePumpOff"}

\* The synchronous part of a handler: up to its first await.  Gives the two
\* override prompts and the task list as the handler leaves them.
\* (variant: "no rule in force" is taken for "the rules want the lamp off")
LightOnConflictsWhenDark(eff) == eff = Null \/ eff = 0

\* (variant: while the light rules are paused as a class nothing conflicts)
LightOnConflictsUnlessPaused(eff) ==
    eff = 0 /\ ~isPausedInFuture(lightRulesPausedUntil)

LightOnConflicts(eff) == eff = 0

LightOffConflicts(eff) == (IF eff = Null THEN 0 ELSE eff) > 0

\* (variant: an unread pump speed is taken for a running pump)
PumpReportedOffWhenZero(pumpSpeed) == pumpSpeed = 0

PumpReportedOff(pumpSpeed) == (IF pumpSpeed = Null THEN 0 ELSE pumpSpeed) <= 0

RunHandler(a, lom, pmm, ts) ==
    LET direct == [lom |-> lom, pmm |-> pmm,
                   ts |-> Append(ts, NewTask(a.fn, "none", 0, 0)),
                   issued |-> {Prog(a.fn, "none")[1]}]
        eff == getEffectiveLightBrightnessFromRules(a.rules)
    IN CASE a.fn = "null" -> [lom |-> lom, pmm |-> pmm, ts |-> ts, issued |-> {}]
         [] a.fn = "handleLightOn" ->
              IF LightOnConflicts(eff)
              THEN [lom |-> [open |-> TRUE, action |-> "on", minutes |-> Text60],
                    pmm |-> pmm, ts |-> ts, issued |-> {}]
              ELSE direct
         [] a.fn = "handleLightOff" ->
              IF LightOffConflicts(eff)
              THEN [lom |-> [open |-> TRUE, action |-> "off", minutes |-> Text60],
                    pmm |-> pmm, ts |-> ts, issued |-> {}]
              ELSE direct
         [] a.fn = "handlePumpOn" ->
              IF PumpReportedOff(a.pumpSpeed)
              THEN [lom |-> lom, pmm |-> [open |-> TRUE, minutes |-> Text5],
                    ts |-> ts, issued |-> {}]
              ELSE direct
         [] OTHER -> direct

\* ------------------------------------------------------------------ Init
NoTimer == [on |-> FALSE, intervalMs |-> 0, paused |-> FALSE]

\* no pure function is under examination
NoProbe == [fn |-> "none"]

\* The component's state after its first render, before anyone has logged in.
Constructed ==
    /\ token = FALSE
    /\ now = 0
    /\ rules = <<>>
    /\ lightRulesPausedUntil = Null
    /\ pumpRulesPausedUntil = Null
    /\ rulesError = "none"
    /\ state = [lightBrightness |-> Null, pumpSpeed |-> Null]
    /\ error = "none"
    /\ lightOverrideModal = [open |-> FALSE, action |-> "on", minutes |-> Text60]
    /\ pumpManualModal = [open |-> FALSE, minutes |-> Text5]
    /\ resumeModal = [open |-> FALSE, type |-> "light", pausedUntil |-> Null]
    /\ pendingResumeActionRef = NoAction
    /\ timer = NoTimer
    /\ tasks = <<>>
    /\ remoteLightPausedUntil = Null
    /\ remotePumpPausedUntil = Null
    /\ captured = 0
    /\ execCount = [k \in 1..MaxCaptures |-> 0]
    /\ discarded = {}
    /\ lastReturn = [wf |-> "none", call |-> "none", res |-> "none", arg |-> Null]
    /\ mounted = TRUE

Init == Constructed /\ probe = NoProbe

\* --------------------------------------------- re-render and its effects
\* The polling effect's body: what it derives when it (re-)runs.
PollingTimer(lpu, ppu) ==
    LET paused == isPausedInFuture(lpu) \/ isPausedInFuture(ppu)
    IN [on |-> TRUE,
        intervalMs |-> IF paused THEN ShortIntervalMs ELSE BaseIntervalMs,
        paused |-> paused]

\* (variant: the cleanup leaves the interval running when the token goes)
PollingEffectKeepsTimer(tok2, lpu2, ppu2) ==
    IF tok2 THEN PollingTimer(lpu2, ppu2) ELSE timer

\* The polling effect re-run for a new token or pause field: its cleanup
\* clears the old interval, its body sets a new one only while a token is held.
PollingEffect(tok2, lpu2, ppu2) ==
    IF tok2 THEN PollingTimer(lpu2, ppu2) ELSE NoTimer

\* Commits the token, the pause fields and the task list a handler leaves,
\* then runs the effects whose dependencies changed: the rules effect on a
\* new token, the polling effect on a change of token or of a pause field.
\* Starting fetchAll clears the error banner, starting fetchRules the rules
\* error.  Once the component is unmounted its state setters do nothing and
\* no effect runs; an async handler still goes on to its next call.
Render(tok2, lpu2, ppu2, ts2, err2, rerr2, issued) ==
    LET changed == <<tok2, lpu2, ppu2>>
                     # <<token, lightRulesPausedUntil, pumpRulesPausedUntil>>
        login == tok2 /\ ~token
        ts3 == IF login THEN Append(ts2, NewTask("fetchRules", "none", 0, 0)) ELSE ts2
        ts4 == IF changed /\ tok2 THEN Append(ts3, NewTask("fetchAll", "none", 0, 0)) ELSE ts3
        all == issued \cup (IF login THEN {"fetchRules"} ELSE {})
                      \cup (IF changed /\ tok2 THEN {"fetchAll"} ELSE {})
    IN IF mounted
       THEN /\ Len(ts4) <= MaxTasks
            /\ token' = tok2
            /\ lightRulesPausedUntil' = lpu2
            /\ pumpRulesPausedUntil' = ppu2
            /\ tasks' = ts4
            /\ timer' = IF ~changed THEN timer ELSE PollingEffect(tok2, lpu2, ppu2)
            /\ error' = IF "fetchAll" \in all THEN "none" ELSE err2
            /\ rulesError' = IF "fetchRules" \in all THEN "none" ELSE rerr2
       ELSE /\ Len(ts2) <= MaxTasks
            /\ tasks' = ts2
            /\ UNCHANGED <<token, lightRulesPausedUntil, pumpRulesPausedUntil,
                           timer, error, rulesError>>

\* A state setter called with value new on a field that holds old.
Commit(new, old) == IF mounted THEN new ELSE old

\* A handler that touches neither the token nor the pause fields.
RenderTasks(ts2, issued) ==
    Render(token, lightRulesPausedUntil, pumpRulesPausedUntil, ts2,
           error, rulesError, issued)

Ghosts == <<captured, execCount, discarded>>

\* lastReturn after a step in which no awaited call returned
NoReturn == [wf |-> "none", call |-> "none", res |-> "none", arg |-> Null]
Quiet == lastReturn' = NoReturn
Remote == <<remoteLightPausedUntil, remotePumpPausedUntil>>
Modals == <<lightOverrideModal, pumpManualModal, resumeModal>>

CountRun(id) ==
    IF id = 0 THEN execCount
    ELSE [execCount EXCEPT ![id] = IF @ < 2 THEN @ + 1 ELSE @]

\* ---------------------------------------------------------- user actions
handleLogin ==
    /\ Quiet
    /\ mounted
    /\ UNCHANGED <<mounted, probe>>
    /\ ~token
    /\ Render(TRUE, lightRulesPausedUntil, pumpRulesPausedUntil, tasks,
              error, rulesError, {})
    /\ UNCHANGED <<now, rules, state, Modals, pendingResumeActionRef, Remote, Ghosts>>

handleLogout ==
    /\ Quiet
    /\ mounted
    /\ UNCHANGED <<mounted, probe>>
    /\ token
    /\ Render(FALSE, lightRulesPausedUntil, pumpRulesPausedUntil, tasks,
              error, rulesError, {})
    /\ UNCHANGED <<now, rules, state, Modals, pendingResumeActionRef, Remote, Ghosts>>

\* runOrShowResumeLight / runOrShowResumePump applied to the handler fn:
\* pausedUntil is the cached pause field of the control's actuator class.
RunOrShowResume(type, pausedUntil, fn) ==
    /\ Quiet
    /\ mounted
    /\ UNCHANGED <<mounted, probe>>
    /\ token
    /\ IF isPausedInFuture(pausedUntil)
       THEN /\ captured < MaxCaptures
            /\ resumeModal' = [open |-> TRUE, type |-> type, pausedUntil |-> pausedUntil]
            /\ pendingResumeActionRef' = Capture(fn, captured + 1)
            /\ captured' = captured + 1
            /\ discarded' = discarded \cup
                  (IF pendingResumeActionRef.id = 0 THEN {}
                   ELSE {pendingResumeActionRef.id})
            /\ UNCHANGED <<token, now, rules, lightRulesPausedUntil,
                           pumpRulesPausedUntil, rulesError, state, error,
                           lightOverrideModal, pumpManualModal, timer, tasks,
                           Remote, execCount>>
       ELSE LET r == RunHandler(Action(fn, 0), lightOverrideModal,
                                pumpManualModal, tasks)
            IN /\ lightOverrideModal' = r.lom
               /\ pumpManualModal' = r.pmm
               /\ RenderTasks(r.ts, r.issued)
               /\ UNCHANGED <<now, rules, state, resumeModal,
                              pendingResumeActionRef, Remote, Ghosts>>

\* (variant: the light controls consult the pump class's pause)
runOrShowResumeLightByPump(fn) == RunOrShowResume("light", pumpRulesPausedUntil, fn)

runOrShowResumeLight(fn) == RunOrShowResume("light", lightRulesPausedUntil, fn)
runOrShowResumePump(fn) == RunOrShowResume("pump", pumpRulesPausedUntil, fn)

\* the "Manual water" button
openPumpManual ==
    /\ Quiet
    /\ mounted
    /\ UNCHANGED <<mounted, probe>>
    /\ token
    /\ pumpManualModal' = [open |-> TRUE, minutes |-> Text5]
    /\ UNCHANGED <<token, now, rules, lightRulesPausedUntil, pumpRulesPausedUntil,
                   rulesError, state, error, lightOverrideModal, resumeModal,
                   pendingResumeActionRef, timer, tasks, Remote, Ghosts>>

\* typing into the minutes field of an open prompt
editLightMinutes(text) ==
    /\ Quiet
    /\ mounted
    /\ UNCHANGED <<mounted, probe>>
    /\ token /\ lightOverrideModal.open
    /\ lightOverrideModal.minutes # text
    /\ lightOverrideModal' = [lightOverrideModal EXCEPT !.minutes = text]
    /\ UNCHANGED <<token, now, rules, lightRulesPausedUntil, pumpRulesPausedUntil,
                   rulesError, state, error, pumpManualModal, resumeModal,
                   pendingResumeActionRef, timer, tasks, Remote, Ghosts>>

editPumpMinutes(text) ==
    /\ Quiet
    /\ mounted
    /\ UNCHANGED <<mounted, probe>>
    /\ token /\ pumpManualModal.open
    /\ pumpManualModal.minutes # text
    /\ pumpManualModal' = [pumpManualModal EXCEPT !.minutes = text]
    /\ UNCHANGED <<token, now, rules, lightRulesPausedUntil, pumpRulesPausedUntil,
                   rulesError, state, error, lightOverrideModal, resumeModal,
                   pendingResumeActionRef, timer, tasks, Remote, Ghosts>>

confirmLightOverride ==
    /\ Quiet
    /\ mounted
    /\ UNCHANGED <<mounted, probe>>
    /\ token /\ lightOverrideModal.open
    /\ LET minutes == ResolveMinutes(lightOverrideModal.minutes,
                                     LightMinutesMax, LightMinutesDefault)
           action == lightOverrideModal.action
           t == NewTask("confirmLightOverride", action, minutes, 0)
       IN /\ lightOverrideModal' = [lightOverrideModal EXCEPT !.open = FALSE]
          /\ RenderTasks(Append(tasks, t), {CurrentCall(t)})
    /\ UNCHANGED <<now, rules, state, pumpManualModal, resumeModal,
                   pendingResumeActionRef, Remote, Ghosts>>

cancelLightOverride ==
    /\ Quiet
    /\ mounted
    /\ UNCHANGED <<mounted, probe>>
    /\ token /\ lightOverrideModal.open
    /\ lightOverrideModal' = [lightOverrideModal EXCEPT !.open = FALSE]
    /\ UNCHANGED <<token, now, rules, lightRulesPausedUntil, pumpRulesPausedUntil,
                   rulesError, state, error, pumpManualModal, resumeModal,
                   pendingResumeActionRef, timer, tasks, Remote, Ghosts>>

confirmPumpManual ==
    /\ Quiet
    /\ mounted
    /\ UNCHANGED <<mounted, probe>>
    /\ token /\ pumpManualModal.open
    /\ LET minutes == ResolveMinutes(pumpManualModal.minutes,
                                     PumpMinutesMax, PumpMinutesDefault)
           t == NewTask("confirmPumpManual", "none", minutes, 0)
       IN /\ pumpManualModal' = [open |-> FALSE, minutes |-> Text5]
          /\ RenderTasks(Append(tasks, t), {CurrentCall(t)})
    /\ UNCHANGED <<now, rules, state, lightOverrideModal, resumeModal,
                   pendingResumeActionRef, Remote, Ghosts>>

\* (variant: closing the watering prompt also stops the pump)
cancelPumpManualStopsPump ==
    /\ Quiet
    /\ mounted
    /\ UNCHANGED <<mounted, probe>>
    /\ token /\ pumpManualModal.open
    /\ pumpManualModal' = [open |-> FALSE, minutes |-> Text5]
    /\ RenderTasks(Append(tasks, NewTask("handlePumpOff", "none", 0, 0)), {"pumpOff"})
    /\ UNCHANGED <<now, rules, state, lightOverrideModal, resumeModal,
                   pendingResumeActionRef, Remote, Ghosts>>

cancelPumpManual ==
    /\ Quiet
    /\ mounted
    /\ UNCHANGED <<mounted, probe>>
    /\ token /\ pumpManualModal.open
    /\ pumpManualModal' = [open |-> FALSE, minutes |-> Text5]
    /\ UNCHANGED <<token, now, rules, lightRulesPausedUntil, pumpRulesPausedUntil,
                   rulesError, state, error, lightOverrideModal, resumeModal,
                   pendingResumeActionRef, timer, tasks, Remote, Ghosts>>

\* (variant: runPending calls the action but leaves it in the cell)
runPendingKeepsCell(ts) ==
    LET fn == pendingResumeActionRef
        r == RunHandler(fn, lightOverrideModal, pumpManualModal, ts)
    IN [lom |-> r.lom, pmm |-> r.pmm, pending |-> pendingResumeActionRef,
        ran |-> fn.id, ts |-> r.ts, issued |-> r.issued]

\* runPending of confirmResumeModal, on the task list ts: takes the action
\* out of the cell and calls it.
runPending(ts) ==
    LET fn == pendingResumeActionRef
        r == RunHandler(fn, lightOverrideModal, pumpManualModal, ts)
    IN [lom |-> r.lom, pmm |-> r.pmm, pending |-> NoAction, ran |-> fn.id,
        ts |-> r.ts, issued |-> r.issued]

\* The click on "Resume rules" (resume) or "Keep paused" (~resume), up to
\* the first await.
confirmResumeModal(resume) ==
    /\ Quiet
    /\ mounted
    /\ UNCHANGED <<mounted, probe>>
    /\ token /\ resumeModal.open
    /\ resumeModal' = [resumeModal EXCEPT !.open = FALSE]
    /\ IF resume
       THEN LET t == NewTask("confirmResumeModal", resumeModal.type, 0,
                             pendingResumeActionRef.id)
            IN /\ RenderTasks(Append(tasks, t), {CurrentCall(t)})
               /\ UNCHANGED <<lightOverrideModal, pumpManualModal,
                              pendingResumeActionRef, execCount>>
       ELSE LET r == runPending(tasks)
            IN /\ lightOverrideModal' = r.lom
               /\ pumpManualModal' = r.pmm
               /\ pendingResumeActionRef' = r.pending
               /\ execCount' = CountRun(r.ran)
               /\ RenderTasks(r.ts, r.issued)
    /\ UNCHANGED <<now, rules, state, Remote, captured, discarded>>

\* (variant: the dialog closes but the action stays in the cell)
closeResumeModalKeepsAction ==
    /\ Quiet
    /\ mounted
    /\ UNCHANGED <<mounted, probe>>
    /\ token /\ resumeModal.open
    /\ resumeModal' = [resumeModal EXCEPT !.open = FALSE]
    /\ UNCHANGED <<token, now, rules, lightRulesPausedUntil, pumpRulesPausedUntil,
                   rulesError, state, error, lightOverrideModal, pumpManualModal,
                   pendingResumeActionRef, timer, tasks, Remote, Ghosts>>

\* (variant: dismissing the dialog also forgets the cached pause it showed)
closeResumeModalForgetsPause ==
    /\ Quiet
    /\ mounted
    /\ UNCHANGED <<mounted, probe>>
    /\ token /\ resumeModal.open
    /\ resumeModal' = [resumeModal EXCEPT !.open = FALSE]
    /\ pendingResumeActionRef' = NoAction
    /\ discarded' = discarded \cup
          (IF pendingResumeActionRef.id = 0 THEN {} ELSE {pendingResumeActionRef.id})
    /\ Render(token,
              IF resumeModal.type = "light" THEN Null ELSE lightRulesPausedUntil,
              IF resumeModal.type = "pump" THEN Null ELSE pumpRulesPausedUntil,
              tasks, error, rulesError, {})
    /\ UNCHANGED <<now, rules, state, lightOverrideModal, pumpManualModal,
                   Remote, captured, execCount>>

closeResumeModal ==
    /\ Quiet
    /\ mounted
    /\ UNCHANGED <<mounted, probe>>
    /\ token /\ resumeModal.open
    /\ resumeModal' = [resumeModal EXCEPT !.open = FALSE]
    /\ pendingResumeActionRef' = NoAction
    /\ discarded' = discarded \cup
          (IF pendingResumeActionRef.id = 0 THEN {} ELSE {pendingResumeActionRef.id})
    /\ UNCHANGED <<token, now, rules, lightRulesPausedUntil, pumpRulesPausedUntil,
                   rulesError, state, error, lightOverrideModal, pumpManualModal,
                   timer, tasks, Remote, captured, execCount>>

\* ------------------------------------------------- the device's answers
\* (variant: a failure logged by fetchRules ends the awaiting workflow)
AfterReturnStopsOnFailure(i, t2) ==
    LET prog == Prog(t2.wf, t2.arg)
        rest == RemoveAt(tasks, i)
        failed == t2.log[Len(t2.log)][2] # "ok"
    IN IF Len(t2.log) < Len(prog) /\ ~failed
       THEN [lom |-> lightOverrideModal, pmm |-> pumpManualModal,
             pending |-> pendingResumeActionRef, ran |-> 0,
             ts |-> [tasks EXCEPT ![i] = t2], issued |-> {CurrentCall(t2)}]
       ELSE IF t2.wf = "confirmResumeModal" /\ ~failed
            THEN runPending(rest)
            ELSE [lom |-> lightOverrideModal, pmm |-> pumpManualModal,
                  pending |-> pendingResumeActionRef, ran |-> 0,
                  ts |-> rest, issued |-> {}]

\* What the code after an await does once call i has returned and t2 is the
\* task with that call logged: issue the workflow's next call, or finish
\* (confirmResumeModal finishes with runPending).
AfterReturn(i, t2) ==
    LET prog == Prog(t2.wf, t2.arg)
        rest == RemoveAt(tasks, i)
    IN IF Len(t2.log) < Len(prog)
       THEN [lom |-> lightOverrideModal, pmm |-> pumpManualModal,
             pending |-> pendingResumeActionRef, ran |-> 0,
             ts |-> [tasks EXCEPT ![i] = t2], issued |-> {CurrentCall(t2)}]
       ELSE IF t2.wf = "confirmResumeModal"
            THEN runPending(rest)
            ELSE [lom |-> lightOverrideModal, pmm |-> pumpManualModal,
                  pending |-> pendingResumeActionRef, ran |-> 0,
                  ts |-> rest, issued |-> {}]

\* (variant: the failure is swallowed and the workflow goes on)
AfterThrowGoesOn(i, t2) == AfterReturn(i, t2)

\* (variant: confirmResumeModal's catch falls through to runPending)
AfterThrowRunsPending(i, t2) ==
    IF t2.wf = "confirmResumeModal" THEN runPending(RemoveAt(tasks, i))
    ELSE [lom |-> lightOverrideModal, pmm |-> pumpManualModal,
          pending |-> pendingResumeActionRef, ran |-> 0,
          ts |-> RemoveAt(tasks, i), issued |-> {}]

\* (variant: a call that has thrown is sent once more)
AfterThrowRetries(i, t2) ==
    [lom |-> lightOverrideModal, pmm |-> pumpManualModal,
     pending |-> pendingResumeActionRef, ran |-> 0,
     ts |-> tasks, issued |-> {CurrentCall(tasks[i])}]

\* What a workflow's catch block leaves once awaited call i has thrown: the
\* workflow is over, nothing more is issued, and confirmResumeModal returns
\* without runPending.
AfterThrow(i, t2) ==
    [lom |-> lightOverrideModal, pmm |-> pumpManualModal,
     pending |-> pendingResumeActionRef, ran |-> 0,
     ts |-> RemoveAt(tasks, i), issued |-> {}]

\* (variant: a 401 answer is thrown like any other failure)
TokenAfterKeeps(res) == token

\* request(): a 401 answer calls onUnauthorized, which drops the token.
TokenAfter(res) == IF res = "unauth" THEN FALSE ELSE token

\* v ?? null
OrNull(v) == IF v = Undefined THEN Null ELSE v

\* A pause field of the response body: a device that holds no pause for a
\* class sends null or, if omit, leaves the key out.
Body(pausedUntil, omit) ==
    IF pausedUntil = Null /\ omit THEN Undefined ELSE pausedUntil

\* (variant: a pause field the response lacks keeps its cached value)
fetchRulesTryMerges(resp) ==
    [rules |-> resp.rules,
     light |-> IF OrNull(resp.light) = Null THEN lightRulesPausedUntil ELSE resp.light,
     pump |-> IF OrNull(resp.pump) = Null THEN pumpRulesPausedUntil ELSE resp.pump]

\* (variant: the pause fields are taken over, the rule list is kept)
fetchRulesTryKeepsRules(resp) ==
    [rules |-> rules, light |-> OrNull(resp.light), pump |-> OrNull(resp.pump)]

\* The three setters of fetchRules' try branch, given the response resp.
fetchRulesTry(resp) ==
    [rules |-> resp.rules, light |-> OrNull(resp.light), pump |-> OrNull(resp.pump)]

\* (variant: a failed fetch leaves the cache as it is)
fetchRulesCatchKeeps ==
    [rules |-> rules, light |-> lightRulesPausedUntil, pump |-> pumpRulesPausedUntil]

\* The three setters of fetchRules' catch branch.
fetchRulesCatch == [rules |-> <<>>, light |-> Null, pump |-> Null]

\* The device serves a rules request: the response body is fixed now and
\* reaches the client later.
ServeRules(i, rl, omit) ==
    /\ Quiet
    /\ UNCHANGED <<mounted, probe>>
    /\ i \in 1..Len(tasks)
    /\ CurrentCall(tasks[i]) = "fetchRules"
    /\ ~tasks[i].resp.served
    /\ tasks' = [tasks EXCEPT ![i].resp =
                    [served |-> TRUE, rules |-> rl,
                     light |-> Body(remoteLightPausedUntil, omit),
                     pump |-> Body(remotePumpPausedUntil, omit)]]
    /\ UNCHANGED <<token, now, rules, lightRulesPausedUntil, pumpRulesPausedUntil,
                   rulesError, state, error, Modals, pendingResumeActionRef,
                   timer, Remote, Ghosts>>

\* fetchRules after its await: the try branch (res = "ok") or the catch.
\* The response is the one already served, or else the device's state now
\* with rule list rl.
fetchRules(i, res, rl) ==
    /\ i \in 1..Len(tasks)
    /\ CurrentCall(tasks[i]) = "fetchRules"
    /\ tasks[i].resp.served => rl = tasks[i].resp.rules
    /\ lastReturn' = [wf |-> tasks[i].wf, call |-> CurrentCall(tasks[i]), res |-> res,
                      arg |-> Null]
    /\ UNCHANGED <<mounted, probe>>
    /\ LET t == tasks[i]
           resp == IF t.resp.served THEN t.resp
                   ELSE [served |-> TRUE, rules |-> rl,
                         light |-> remoteLightPausedUntil,
                         pump |-> remotePumpPausedUntil]
           t2 == [t EXCEPT !.log = Append(@, <<"fetchRules", res>>), !.resp = NoResp]
           a == AfterReturn(i, t2)
           isNetwork == res = "net"
           msg == IF isNetwork THEN "Couldn't reach the device." ELSE ErrMessage(res)
           set == IF res = "ok" THEN fetchRulesTry(resp) ELSE fetchRulesCatch
       IN /\ rules' = Commit(set.rules, rules)
          /\ lightOverrideModal' = Commit(a.lom, lightOverrideModal)
          /\ pumpManualModal' = Commit(a.pmm, pumpManualModal)
          /\ pendingResumeActionRef' = a.pending
          /\ execCount' = CountRun(a.ran)
          /\ Render(TokenAfter(res), set.light, set.pump, a.ts, error,
                    IF res = "ok" THEN rulesError ELSE msg,
                    a.issued)
    /\ UNCHANGED <<now, state, resumeModal, Remote, captured, discarded>>

\* The outcome of one sensor read: a value, or a failure of the request.
Read(v) == [ok |-> TRUE, value |-> v]
ReadFailed == [ok |-> FALSE, value |-> Null]

LightReadings == {ReadFailed, Read(80)}
PumpReadings == {ReadFailed, Read(0), Read(FullSpeed)}

\* api.getX().then((r) => r.value ?? null).catch(() => null)
SensorField(r) == IF r.ok THEN r.value ELSE Null

\* fetchAll after its Promise.all.  res is "unauth" when a read was answered
\* 401, which is one of the reads that failed.
fetchAll(i, lightBrightness, pumpSpeed, res) ==
    /\ i \in 1..Len(tasks)
    /\ CurrentCall(tasks[i]) = "fetchAll"
    /\ lastReturn' = [wf |-> tasks[i].wf, call |-> CurrentCall(tasks[i]), res |-> res,
                      arg |-> Null]
    /\ UNCHANGED <<mounted, probe>>
    /\ res \in {"ok", "unauth"}
    /\ res = "unauth" => (~lightBrightness.ok \/ ~pumpSpeed.ok)
    /\ LET t == tasks[i]
           t2 == [t EXCEPT !.log = Append(@, <<"fetchAll", res>>)]
           a == AfterReturn(i, t2)
       IN /\ state' = Commit(
                [lightBrightness |-> SensorField(lightBrightness),
                 pumpSpeed |-> SensorField(pumpSpeed)], state)
          /\ lightOverrideModal' = Commit(a.lom, lightOverrideModal)
          /\ pumpManualModal' = Commit(a.pmm, pumpManualModal)
          /\ pendingResumeActionRef' = a.pending
          /\ execCount' = CountRun(a.ran)
          /\ Render(TokenAfter(res), lightRulesPausedUntil, pumpRulesPausedUntil,
                    a.ts, error, rulesError, a.issued)
    /\ UNCHANGED <<now, rules, resumeModal, Remote, captured, discarded>>

\* What a successful write does on the device.
\* (variant: the auto-off is scheduled with the prompt's default, not with
\* the minutes the user confirmed)
CallArgDefaultOff(t, c) ==
    CASE c \in PauseCalls -> t.minutes
      [] c = "setManualPumpOffInMinutes" -> PumpMinutesDefault
      [] c = "setPumpSpeed" -> FullSpeed
      [] OTHER -> Null

\* The argument a request carries: the resolved minutes for a pause and for
\* the pump's auto-off, full speed for setPumpSpeed.
CallArg(t, c) ==
    CASE c \in PauseCalls -> t.minutes
      [] c = "setManualPumpOffInMinutes" -> t.minutes
      [] c = "setPumpSpeed" -> FullSpeed
      [] OTHER -> Null

RemoteAfter(c, minutes) ==
    CASE c = "pauseLightRulesForMinutes" -> <<now + minutes, remotePumpPausedUntil>>
      [] c = "pausePumpRulesForMinutes" -> <<remoteLightPausedUntil, now + minutes>>
      [] c = "resumeLightRules" -> <<Null, remotePumpPausedUntil>>
      [] c = "resumePumpRules" -> <<remoteLightPausedUntil, Null>>
      [] OTHER -> <<remoteLightPausedUntil, remotePumpPausedUntil>>

\* Any other awaited call returns: on "ok" the workflow goes on, otherwise
\* request() throws and the workflow's catch sets the error banner.
Return(i, res) ==
    /\ i \in 1..Len(tasks)
    /\ CurrentCall(tasks[i]) \notin {"fetchRules", "fetchAll"}
    /\ lastReturn' = [wf |-> tasks[i].wf, call |-> CurrentCall(tasks[i]), res |-> res,
                      arg |-> CallArg(tasks[i], CurrentCall(tasks[i]))]
    /\ UNCHANGED <<mounted, probe>>
    /\ LET t == tasks[i]
           c == CurrentCall(t)
           t2 == [t EXCEPT !.log = Append(@, <<c, res>>)]
           a == IF res = "ok" THEN AfterReturn(i, t2) ELSE AfterThrow(i, t2)
           remote == IF res = "ok" THEN RemoteAfter(c, CallArg(t, c))
                     ELSE <<remoteLightPausedUntil, remotePumpPausedUntil>>
       IN /\ remoteLightPausedUntil' = remote[1]
          /\ remotePumpPausedUntil' = remote[2]
          /\ lightOverrideModal' = Commit(a.lom, lightOverrideModal)
          /\ pumpManualModal' = Commit(a.pmm, pumpManualModal)
          /\ pendingResumeActionRef' = a.pending
          /\ execCount' = CountRun(a.ran)
          /\ Render(TokenAfter(res), lightRulesPausedUntil, pumpRulesPausedUntil,
                    a.ts, IF res = "ok" THEN error ELSE ErrMessage(res),
                    rulesError, a.issued)
    /\ UNCHANGED <<now, rules, state, resumeModal, captured, discarded>>

\* ------------------------------------------------------- the environment
\* (variant: the callback refreshes the sensors only)
TickSensorsOnly ==
    /\ Quiet
    /\ UNCHANGED <<mounted, probe>>
    /\ timer.on
    /\ RenderTasks(Append(tasks, NewTask("fetchAll", "none", 0, 0)), {"fetchAll"})
    /\ UNCHANGED <<now, rules, state, Modals, pendingResumeActionRef, Remote, Ghosts>>

\* The setInterval callback of the polling effect.
Tick ==
    /\ Quiet
    /\ UNCHANGED <<mounted, probe>>
    /\ timer.on
    /\ LET ts1 == Append(tasks, NewTask("fetchAll", "none", 0, 0))
           ts2 == IF timer.paused
                  THEN Append(ts1, NewTask("fetchRules", "none", 0, 0)) ELSE ts1
       IN RenderTasks(ts2, {"fetchAll"} \cup
                           (IF timer.paused THEN {"fetchRules"} ELSE {}))
    /\ UNCHANGED <<now, rules, state, Modals, pendingResumeActionRef, Remote, Ghosts>>

\* The component unmounts: the polling effect's cleanup clears the interval.
\* Requests in flight are left alone.
Unmount ==
    /\ Quiet
    /\ mounted
    /\ mounted' = FALSE
    /\ timer' = NoTimer
    /\ UNCHANGED <<token, now, rules, lightRulesPausedUntil, pumpRulesPausedUntil,
                   rulesError, state, error, Modals, pendingResumeActionRef,
                   tasks, Remote, Ghosts, probe>>

AdvanceTime ==
    /\ Quiet
    /\ UNCHANGED <<mounted, probe>>
    /\ now < MaxTime
    /\ now' = now + 1
    /\ UNCHANGED <<token, rules, lightRulesPausedUntil, pumpRulesPausedUntil,
                   rulesError, state, error, Modals, pendingResumeActionRef,
                   timer, tasks, Remote, Ghosts>>

\* Another client of the device pauses a class of rules for some minutes.
RemotePause(type, minutes) ==
    /\ Quiet
    /\ UNCHANGED <<mounted, probe>>
    /\ IF type = "light"
       THEN /\ remoteLightPausedUntil' = now + minutes
            /\ UNCHANGED remotePumpPausedUntil
       ELSE /\ remotePumpPausedUntil' = now + minutes
            /\ UNCHANGED remoteLightPausedUntil
    /\ UNCHANGED <<token, now, rules, lightRulesPausedUntil, pumpRulesPausedUntil,
                   rulesError, state, error, Modals, pendingResumeActionRef,
                   timer, tasks, Ghosts>>

\* The device may drop a pause once it has expired.
RemoteExpire ==
    /\ Quiet
    /\ UNCHANGED <<mounted, probe>>
    /\ \/ /\ remoteLightPausedUntil # Null /\ remoteLightPausedUntil <= now
          /\ remoteLightPausedUntil' = Null
          /\ UNCHANGED remotePumpPausedUntil
       \/ /\ remotePumpPausedUntil # Null /\ remotePumpPausedUntil <= now
          /\ remotePumpPausedUntil' = Null
          /\ UNCHANGED remoteLightPausedUntil
    /\ UNCHANGED <<token, now, rules, lightRulesPausedUntil, pumpRulesPausedUntil,
                   rulesError, state, error, Modals, pendingResumeActionRef,
                   timer, tasks, Ghosts>>

\* Another client of the device resumes a class of rules.
RemoteResume(type) ==
    /\ Quiet
    /\ UNCHANGED <<mounted, probe>>
    /\ IF type = "light"
       THEN /\ remoteLightPausedUntil # Null
            /\ remoteLightPausedUntil' = Null
            /\ UNCHANGED remotePumpPausedUntil
       ELSE /\ remotePumpPausedUntil # Null
            /\ remotePumpPausedUntil' = Null
            /\ UNCHANGED remoteLightPausedUntil
    /\ UNCHANGED <<token, now, rules, lightRulesPausedUntil, pumpRulesPausedUntil,
                   rulesError, state, error, Modals, pendingResumeActionRef,
                   timer, tasks, Ghosts>>

\* Everything but the probe.
Program == <<token, now, rules, lightRulesPausedUntil, pumpRulesPausedUntil,
             rulesError, state, error, lightOverrideModal, pumpManualModal,
             resumeModal, pendingResumeActionRef, timer, tasks,
             remoteLightPausedUntil, remotePumpPausedUntil,
             captured, execCount, discarded, lastReturn, mounted>>

\* One call isTimeInRange(now, start, end) with the probe's arguments.
callIsTimeInRange ==
    /\ probe.fn = "isTimeInRange"
    /\ ~probe.done
    /\ probe' = [probe EXCEPT !.done = TRUE,
                              !.result = isTimeInRange(probe.now, probe.start, probe.end)]
    /\ UNCHANGED Program

\* Every order in which a rule list may arrive.
Reorder(rs, p) == [i \in 1..Len(rs) |-> rs[p[i]]]

\* handleLightOn / handleLightOff ask for the effective brightness of a rule
\* list at the current minute; the same question is put for every order of
\* the list.
callGetEffectiveLightBrightnessFromRules ==
    /\ probe.fn = "getEffectiveLightBrightnessFromRules"
    /\ ~probe.done
    /\ probe' = [probe EXCEPT
          !.done = TRUE,
          !.at = now,
          !.result = getEffectiveLightBrightnessFromRules(probe.rules),
          !.reordered = { getEffectiveLightBrightnessFromRules(Reorder(probe.rules, p)) :
                            p \in Permutations(1..Len(probe.rules)) }]
    /\ UNCHANGED Program

TaskIds == 1..MaxTasks

Next ==
    \/ handleLogin
    \/ handleLogout
    \/ \E fn \in LightHandlers : runOrShowResumeLight(fn)
    \/ \E fn \in PumpHandlers : runOrShowResumePump(fn)
    \/ openPumpManual
    \/ \E text \in LightMinuteTexts : editLightMinutes(text)
    \/ \E text \in PumpMinuteTexts : editPumpMinutes(text)
    \/ confirmLightOverride
    \/ cancelLightOverride
    \/ confirmPumpManual
    \/ cancelPumpManual
    \/ \E resume \in BOOLEAN : confirmResumeModal(resume)
    \/ closeResumeModal
    \/ \E i \in TaskIds, rl \in RuleLists, omit \in BOOLEAN : ServeRules(i, rl, omit)
    \/ \E i \in TaskIds, res \in Outcomes, rl \in RuleLists : fetchRules(i, res, rl)
    \/ \E i \in TaskIds, lb \in LightReadings, ps \in PumpReadings,
          res \in Outcomes : fetchAll(i, lb, ps, res)
    \/ \E i \in TaskIds, res \in Outcomes : Return(i, res)
    \/ Tick
    \/ AdvanceTime
    \/ \E type \in {"light", "pump"} : RemotePause(type, 1)
    \/ RemoteExpire
    \/ \E type \in {"light", "pump"} : RemoteResume(type)
    \/ Unmount

Spec == Init /\ [][Next]_vars

\* ---------------------------------------------------------------------
\* The Resume Gate with its resolutions, against a device whose pauses are
\* set by other clients and expire with time.
GateRuleLists == { <<>>, << LightRule(<<8, 0>>, <<10, 0>>, 0) >> }
GateOutcomes == {"ok", "http"}

\* The dashboard some time after login: the first fetches have returned what
\* the device held (pauses of one minute, set by an earlier override or by
\* another client), and nothing is in flight.
InitGate ==
    /\ token = TRUE
    /\ now = 0
    /\ rules \in GateRuleLists
    /\ remoteLightPausedUntil \in {Null, 1}
    /\ remotePumpPausedUntil \in {Null, 1}
    /\ lightRulesPausedUntil = remoteLightPausedUntil
    /\ pumpRulesPausedUntil = remotePumpPausedUntil
    /\ rulesError = "none"
    /\ state = [lightBrightness |-> 80, pumpSpeed |-> 0]
    /\ error = "none"
    /\ lightOverrideModal = [open |-> FALSE, action |-> "on", minutes |-> Text60]
    /\ pumpManualModal = [open |-> FALSE, minutes |-> Text5]
    /\ resumeModal = [open |-> FALSE, type |-> "light", pausedUntil |-> Null]
    /\ pendingResumeActionRef = NoAction
    /\ timer = PollingTimer(lightRulesPausedUntil, pumpRulesPausedUntil)
    /\ tasks = <<>>
    /\ captured = 0
    /\ execCount = [k \in 1..MaxCaptures |-> 0]
    /\ discarded = {}
    /\ lastReturn = [wf |-> "none", call |-> "none", res |-> "none", arg |-> Null]
    /\ mounted = TRUE
    /\ probe = NoProbe

NextGate ==
    \/ \E fn \in {"handleLightOn", "handleLightBrightness"} : runOrShowResumeLight(fn)
    \/ \E fn \in {"handlePumpOff"} : runOrShowResumePump(fn)
    \/ \E resume \in BOOLEAN : confirmResumeModal(resume)
    \/ closeResumeModal
    \/ \E i \in TaskIds, res \in GateOutcomes, rl \in GateRuleLists : fetchRules(i, res, rl)
    \/ \E i \in TaskIds : fetchAll(i, Read(80), Read(0), "ok")
    \/ \E i \in TaskIds, res \in GateOutcomes : Return(i, res)
    \/ Tick
    \/ AdvanceTime

SpecGate == InitGate /\ [][NextGate]_vars

\* ---------------------------------------------------------------------
\* The two override workflows, from a dashboard whose rules conflict with
\* the manual light commands and whose pump is reported off.
OverrideRuleLists == { << LightRule(<<8, 0>>, <<10, 0>>, 0) >>,
                       << LightRule(<<8, 0>>, <<10, 0>>, 80) >> }

InitOverride ==
    /\ token = TRUE
    /\ now = 0
    /\ rules \in OverrideRuleLists
    /\ remoteLightPausedUntil = Null
    /\ remotePumpPausedUntil = Null
    /\ lightRulesPausedUntil = Null
    /\ pumpRulesPausedUntil = Null
    /\ rulesError = "none"
    /\ state = [lightBrightness |-> 80, pumpSpeed |-> 0]
    /\ error = "none"
    /\ lightOverrideModal = [open |-> FALSE, action |-> "on", minutes |-> Text60]
    /\ pumpManualModal = [open |-> FALSE, minutes |-> Text5]
    /\ resumeModal = [open |-> FALSE, type |-> "light", pausedUntil |-> Null]
    /\ pendingResumeActionRef = NoAction
    /\ timer = PollingTimer(Null, Null)
    /\ tasks = <<>>
    /\ captured = 0
    /\ execCount = [k \in 1..MaxCaptures |-> 0]
    /\ discarded = {}
    /\ lastReturn = [wf |-> "none", call |-> "none", res |-> "none", arg |-> Null]
    /\ mounted = TRUE
    /\ probe = NoProbe

OverrideOutcomes == {"ok", "http"}

NextOverride ==
    \/ \E fn \in {"handleLightOn", "handleLightOff"} : runOrShowResumeLight(fn)
    \/ \E fn \in {"handlePumpOn"} : runOrShowResumePump(fn)
    \/ confirmLightOverride
    \/ confirmPumpManual
    \/ \E i \in TaskIds, res \in OverrideOutcomes, rl \in OverrideRuleLists :
          fetchRules(i, res, rl)
    \/ \E i \in TaskIds : fetchAll(i, Read(80), Read(0), "ok")
    \/ \E i \in TaskIds, res \in OverrideOutcomes : Return(i, res)

SpecOverride == InitOverride /\ [][NextOverride]_vars

\* ---------------------------------------------------------------------
\* The reconciliation loop from construction on: sessions begin and end, the
\* timer ticks, the device's pauses come and go.
NextPoll ==
    \/ handleLogin
    \/ handleLogout
    \/ Tick
    \/ \E i \in TaskIds, omit \in BOOLEAN : ServeRules(i, <<>>, omit)
    \/ \E i \in TaskIds, res \in Outcomes : fetchRules(i, res, <<>>)
    \/ \E i \in TaskIds, lb \in LightReadings, ps \in PumpReadings,
          res \in Outcomes : fetchAll(i, lb, ps, res)
    \/ AdvanceTime
    \/ \E type \in {"light", "pump"} : RemotePause(type, 1)
    \/ RemoteExpire
    \/ Unmount

SpecPoll == Init /\ [][NextPoll]_vars

\* ---------------------------------------------------------------------
\* The reconciliation loop of a session that lasts: the light rules are
\* paused when the scenario begins, the user only watches, and other clients
\* pause and resume on the device.
LoopRuleLists == { <<>>, << LightRule(<<8, 0>>, <<10, 0>>, 80) >> }

InitLoop ==
    /\ token = TRUE
    /\ now = 0
    /\ rules = <<>>
    /\ remoteLightPausedUntil = 1
    /\ remotePumpPausedUntil \in {Null, 1}
    /\ lightRulesPausedUntil = remoteLightPausedUntil
    /\ pumpRulesPausedUntil = remotePumpPausedUntil
    /\ rulesError = "none"
    /\ state = [lightBrightness |-> 80, pumpSpeed |-> 0]
    /\ error = "none"
    /\ lightOverrideModal = [open |-> FALSE, action |-> "on", minutes |-> Text60]
    /\ pumpManualModal = [open |-> FALSE, minutes |-> Text5]
    /\ resumeModal = [open |-> FALSE, type |-> "light", pausedUntil |-> Null]
    /\ pendingResumeActionRef = NoAction
    /\ timer = PollingTimer(lightRulesPausedUntil, pumpRulesPausedUntil)
    /\ tasks = <<>>
    /\ captured = 0
    /\ execCount = [k \in 1..MaxCaptures |-> 0]
    /\ discarded = {}
    /\ lastReturn = NoReturn
    /\ mounted = TRUE
    /\ probe = NoProbe

LoopOutcomes == {"ok", "net"}

NextLoop ==
    \/ Tick
    \/ \E i \in TaskIds, rl \in LoopRuleLists, omit \in BOOLEAN : ServeRules(i, rl, omit)
    \/ \E i \in TaskIds, res \in LoopOutcomes, rl \in LoopRuleLists : fetchRules(i, res, rl)
    \/ \E i \in TaskIds : fetchAll(i, Read(80), Read(0), "ok")
    \/ AdvanceTime
    \/ \E type \in {"light", "pump"} : RemotePause(type, 1)
    \/ \E type \in {"light", "pump"} : RemoteResume(type)
    \/ RemoteExpire

SpecLoop == InitLoop /\ [][NextLoop]_vars

\* ---------------------------------------------------------------------
\* A tick racing an override: the pump rules are paused, so every tick
\* re-fetches the rules, and the user turns the light off against a rule
\* that wants it on, which pauses the light rules and re-fetches as well.
RaceRuleLists == { <<>>, << LightRule(<<8, 0>>, <<10, 0>>, 80) >> }

InitRace ==
    /\ token = TRUE
    /\ now = 0
    /\ rules = << LightRule(<<8, 0>>, <<10, 0>>, 80) >>
    /\ remoteLightPausedUntil = Null
    /\ remotePumpPausedUntil = 1
    /\ lightRulesPausedUntil = remoteLightPausedUntil
    /\ pumpRulesPausedUntil = remotePumpPausedUntil
    /\ rulesError = "none"
    /\ state = [lightBrightness |-> 80, pumpSpeed |-> 0]
    /\ error = "none"
    /\ lightOverrideModal = [open |-> FALSE, action |-> "on", minutes |-> Text60]
    /\ pumpManualModal = [open |-> FALSE, minutes |-> Text5]
    /\ resumeModal = [open |-> FALSE, type |-> "light", pausedUntil |-> Null]
    /\ pendingResumeActionRef = NoAction
    /\ timer = PollingTimer(lightRulesPausedUntil, pumpRulesPausedUntil)
    /\ tasks = <<>>
    /\ captured = 0
    /\ execCount = [k \in 1..MaxCaptures |-> 0]
    /\ discarded = {}
    /\ lastReturn = NoReturn
    /\ mounted = TRUE
    /\ probe = NoProbe

RaceOutcomes == {"ok", "net"}

NextRace ==
    \/ Tick
    \/ runOrShowResumeLight("handleLightOff")
    \/ confirmLightOverride
    \/ \E i \in TaskIds, rl \in RaceRuleLists, omit \in BOOLEAN : ServeRules(i, rl, omit)
    \/ \E i \in TaskIds, res \in RaceOutcomes, rl \in RaceRuleLists : fetchRules(i, res, rl)
    \/ \E i \in TaskIds : fetchAll(i, Read(80), Read(0), "ok")
    \/ \E i \in TaskIds, res \in RaceOutcomes : Return(i, res)

SpecRace == InitRace /\ [][NextRace]_vars

\* ---------------------------------------------------------------------
\* The loop left to itself: the device's pauses no longer change, the user
\* stays logged in and does nothing, every request succeeds, and the timer
\* and the responses keep coming.  The cache starts from what an earlier
\* fetch left, which need not be what the device holds now.
InitSettle ==
    /\ token = TRUE
    /\ now = 0
    /\ rules = <<>>
    /\ remoteLightPausedUntil \in {Null, MaxTime + 1}
    /\ remotePumpPausedUntil \in {Null, MaxTime + 1}
    /\ lightRulesPausedUntil \in {Null, 1}
    /\ pumpRulesPausedUntil \in {Null, 1}
    /\ rulesError = "none"
    /\ state = [lightBrightness |-> 80, pumpSpeed |-> 0]
    /\ error = "none"
    /\ lightOverrideModal = [open |-> FALSE, action |-> "on", minutes |-> Text60]
    /\ pumpManualModal = [open |-> FALSE, minutes |-> Text5]
    /\ resumeModal = [open |-> FALSE, type |-> "light", pausedUntil |-> Null]
    /\ pendingResumeActionRef = NoAction
    /\ timer = PollingTimer(lightRulesPausedUntil, pumpRulesPausedUntil)
    /\ tasks = <<>>
    /\ captured = 0
    /\ execCount = [k \in 1..MaxCaptures |-> 0]
    /\ discarded = {}
    /\ lastReturn = NoReturn
    /\ mounted = TRUE
    /\ probe = NoProbe

SettleRules == \E i \in TaskIds : fetchRules(i, "ok", <<>>)
SettleSensors == \E i \in TaskIds, ps \in {Read(0), Read(FullSpeed)} :
                    fetchAll(i, Read(80), ps, "ok")

NextSettle ==
    \/ Tick
    \/ SettleRules
    \/ SettleSensors
    \/ AdvanceTime

SpecSettle ==
    /\ InitSettle /\ [][NextSettle]_vars
    /\ WF_vars(Tick) /\ WF_vars(SettleRules) /\ WF_vars(SettleSensors)
    /\ WF_vars(AdvanceTime)

\* ---------------------------------------------------------------------
\* isTimeInRange on its own: one call for every choice of its arguments.
Times == { <<0, 0>>, <<6, 0>>, <<9, 15>>, <<12, 0>>, <<22, 0>>, <<23, 30>>, <<23, 59>> }

InitRange ==
    /\ Constructed
    /\ probe \in [fn : {"isTimeInRange"}, now : Times, start : Times,
                   end : Times \cup {NoTime}, done : {FALSE}, result : {FALSE}]

NextRange == callIsTimeInRange

SpecRange == InitRange /\ [][NextRange]_vars

\* --------------------------- scenario: the effective light brightness
\* Rules a device may hold around 09:15: two overlapping morning rules, an
\* "off" rule, a later rule, a disabled and a paused rule, a pump rule, a
\* rule without an end and a rule that names no brightness.
RulePool ==
    { LightRule(<<8, 0>>, <<10, 0>>, 40),
      LightRule(<<9, 0>>, <<9, 30>>, 80),
      LightRule(<<8, 0>>, <<10, 0>>, 0),
      LightRule(<<10, 0>>, <<12, 0>>, FullSpeed),
      [LightRule(<<8, 0>>, <<10, 0>>, FullSpeed) EXCEPT !.enabled = "false"],
      [LightRule(<<8, 0>>, <<10, 0>>, FullSpeed) EXCEPT !.paused = "true"],
      PumpRule(<<9, 15>>, PumpMinutesDefault),
      LightRule(<<9, 15>>, NoTime, 60),
      LightRule(<<8, 0>>, <<10, 0>>, Null) }

PoolLists == UNION { [1..n -> RulePool] : n \in 0..MaxRules }

InitEffective ==
    /\ Constructed
    /\ probe \in [fn : {"getEffectiveLightBrightnessFromRules"}, rules : PoolLists,
                   done : {FALSE}, at : {0}, result : {Null}, reordered : {{}}]

NextEffective ==
    \/ callGetEffectiveLightBrightnessFromRules
    \/ AdvanceTime

SpecEffective == InitEffective /\ [][NextEffective]_vars

\* ------------------------------------------- scenario: manual watering
\* A logged-in dashboard with no rules; the pump is known to be off, known
\* to run, or its speed could not be read.
InitPump ==
    /\ token = TRUE
    /\ now = 0
    /\ rules = <<>>
    /\ remoteLightPausedUntil = Null
    /\ remotePumpPausedUntil = Null
    /\ lightRulesPausedUntil = Null
    /\ pumpRulesPausedUntil = Null
    /\ rulesError = "none"
    /\ state \in { [lightBrightness |-> 80, pumpSpeed |-> SensorField(r)] :
                      r \in PumpReadings }
    /\ error = "none"
    /\ lightOverrideModal = [open |-> FALSE, action |-> "on", minutes |-> Text60]
    /\ pumpManualModal = [open |-> FALSE, minutes |-> Text5]
    /\ resumeModal = [open |-> FALSE, type |-> "light", pausedUntil |-> Null]
    /\ pendingResumeActionRef = NoAction
    /\ timer = PollingTimer(Null, Null)
    /\ tasks = <<>>
    /\ captured = 0
    /\ execCount = [k \in 1..MaxCaptures |-> 0]
    /\ discarded = {}
    /\ lastReturn = NoReturn
    /\ mounted = TRUE
    /\ probe = NoProbe

PumpOutcomes == {"ok", "http"}

NextPump ==
    \/ runOrShowResumePump("handlePumpOn")
    \/ \E text \in PumpMinuteTexts : editPumpMinutes(text)
    \/ confirmPumpManual
    \/ cancelPumpManual
    \/ \E i \in TaskIds, res \in PumpOutcomes : fetchRules(i, res, <<>>)
    \/ \E i \in TaskIds, r \in PumpReadings : fetchAll(i, Read(80), r, "ok")
    \/ \E i \in TaskIds, res \in PumpOutcomes : Return(i, res)

SpecPump == InitPump /\ [][NextPump]_vars

\* ------------------------------------------ scenario: the minutes field
\* Integers a user may type into a minutes field, and texts that are no
\* integer: nothing, letters, a fraction, a lone sign.
DurationInts == {0 - 5, 0, 1, PumpMinutesDefault, LightMinutesDefault,
                 PumpMinutesMax, PumpMinutesMax + 1,
                 LightMinutesMax, LightMinutesMax + 1, 99999}

OtherTexts == { <<>>, <<"a", "b", "c">>, <<"1", ".", "5">>, <<"-">> }

DurationTexts == { TextOf(n) : n \in DurationInts } \cup OtherTexts

\* One of the two prompts is open, opened by the click that conflicts with
\* the rules (light) or with a pump that is off, and the user has typed into
\* its minutes field.
InitDuration ==
    /\ token = TRUE
    /\ now = 0
    /\ remoteLightPausedUntil = Null
    /\ remotePumpPausedUntil = Null
    /\ lightRulesPausedUntil = Null
    /\ pumpRulesPausedUntil = Null
    /\ rulesError = "none"
    /\ state = [lightBrightness |-> 80, pumpSpeed |-> 0]
    /\ error = "none"
    /\ \E text \in DurationTexts :
          \/ /\ rules = << LightRule(<<8, 0>>, <<10, 0>>, 0) >>
             /\ lightOverrideModal = [open |-> TRUE, action |-> "on", minutes |-> text]
             /\ pumpManualModal = [open |-> FALSE, minutes |-> Text5]
          \/ /\ rules = << LightRule(<<8, 0>>, <<10, 0>>, 80) >>
             /\ lightOverrideModal = [open |-> TRUE, action |-> "off", minutes |-> text]
             /\ pumpManualModal = [open |-> FALSE, minutes |-> Text5]
          \/ /\ rules = <<>>
             /\ lightOverrideModal = [open |-> FALSE, action |-> "on", minutes |-> Text60]
             /\ pumpManualModal = [open |-> TRUE, minutes |-> text]
    /\ resumeModal = [open |-> FALSE, type |-> "light", pausedUntil |-> Null]
    /\ pendingResumeActionRef = NoAction
    /\ timer = PollingTimer(Null, Null)
    /\ tasks = <<>>
    /\ captured = 0
    /\ execCount = [k \in 1..MaxCaptures |-> 0]
    /\ discarded = {}
    /\ lastReturn = NoReturn
    /\ mounted = TRUE
    /\ probe = NoProbe

DurationOutcomes == {"ok", "http"}

NextDuration ==
    \/ confirmLightOverride
    \/ confirmPumpManual
    \/ \E i \in TaskIds, res \in DurationOutcomes : fetchRules(i, res, rules)
    \/ \E i \in TaskIds : fetchAll(i, Read(80), Read(0), "ok")
    \/ \E i \in TaskIds, res \in DurationOutcomes : Return(i, res)

SpecDuration == InitDuration /\ [][NextDuration]_vars

\* --------------------------------------- scenario: closing the prompts
\* The rules want the lamp off and the pump is off, so "light on" and "pump
\* on" open their prompts; the user may type into the light prompt, confirm
\* a prompt or close it, and the device accepts every request.
InitCancel ==
    /\ InitOverride
    /\ rules = << LightRule(<<8, 0>>, <<10, 0>>, 0) >>

NextCancel ==
    \/ runOrShowResumeLight("handleLightOn")
    \/ runOrShowResumePump("handlePumpOn")
    \/ \E text \in LightMinuteTexts : editLightMinutes(text)
    \/ cancelLightOverride
    \/ cancelPumpManual
    \/ confirmLightOverride
    \/ confirmPumpManual
    \/ \E i \in TaskIds : fetchRules(i, "ok", rules)
    \/ \E i \in TaskIds : fetchAll(i, Read(80), Read(0), "ok")
    \/ \E i \in TaskIds : Return(i, "ok")

SpecCancel == InitCancel /\ [][NextCancel]_vars

\* ------------------------------- scenario: light on under a class pause
\* The rules want the lamp off (0 % all morning).  The device may already
\* hold a light pause of one minute, which the dashboard has cached; the
\* user clicks "light on" and answers whatever dialog or prompt comes up.
UnderPauseRules == << LightRule(<<8, 0>>, <<10, 0>>, 0) >>

InitUnderPause ==
    /\ InitGate
    /\ rules = UnderPauseRules
    /\ remotePumpPausedUntil = Null

UnderPauseOutcomes == {"ok", "http"}

NextUnderPause ==
    \/ runOrShowResumeLight("handleLightOn")
    \/ confirmLightOverride
    \/ cancelLightOverride
    \/ \E resume \in BOOLEAN : confirmResumeModal(resume)
    \/ closeResumeModal
    \/ \E i \in TaskIds, res \in UnderPauseOutcomes : fetchRules(i, res, UnderPauseRules)
    \/ \E i \in TaskIds : fetchAll(i, Read(80), Read(0), "ok")
    \/ \E i \in TaskIds, res \in UnderPauseOutcomes : Return(i, res)

SpecUnderPause == InitUnderPause /\ [][NextUnderPause]_vars

\* ------------------------------------- scenario: the direct commands
\* No rule is in force and nothing is paused, the lamp is on and the pump
\* runs, so every control sends its command at once; the device may refuse
\* a request, be out of reach, or reject the token.
InitDirect ==
    /\ token = TRUE
    /\ now = 0
    /\ rules = <<>>
    /\ remoteLightPausedUntil = Null
    /\ remotePumpPausedUntil = Null
    /\ lightRulesPausedUntil = Null
    /\ pumpRulesPausedUntil = Null
    /\ rulesError = "none"
    /\ state = [lightBrightness |-> 80, pumpSpeed |-> FullSpeed]
    /\ error = "none"
    /\ lightOverrideModal = [open |-> FALSE, action |-> "on", minutes |-> Text60]
    /\ pumpManualModal = [open |-> FALSE, minutes |-> Text5]
    /\ resumeModal = [open |-> FALSE, type |-> "light", pausedUntil |-> Null]
    /\ pendingResumeActionRef = NoAction
    /\ timer = PollingTimer(Null, Null)
    /\ tasks = <<>>
    /\ captured = 0
    /\ execCount = [k \in 1..MaxCaptures |-> 0]
    /\ discarded = {}
    /\ lastReturn = NoReturn
    /\ mounted = TRUE
    /\ probe = NoProbe

NextDirect ==
    \/ \E fn \in LightHandlers : runOrShowResumeLight(fn)
    \/ \E fn \in PumpHandlers : runOrShowResumePump(fn)
    \/ \E i \in TaskIds, l \in LightReadings, p \in PumpReadings : fetchAll(i, l, p, "ok")
    \/ \E i \in TaskIds, res \in Outcomes : Return(i, res)

SpecDirect == InitDirect /\ [][NextDirect]_vars

\* ------------------------------------- scenario: every manual control
\* All six controls of the two cards, the prompts and the resume dialog,
\* from a dashboard on which either class may be paused; every request
\* succeeds.
InitControls == InitGate

NextControls ==
    \/ \E fn \in LightHandlers : runOrShowResumeLight(fn)
    \/ \E fn \in PumpHandlers : runOrShowResumePump(fn)
    \/ openPumpManual
    \/ cancelPumpManual
    \/ cancelLightOverride
    \/ \E resume \in BOOLEAN : confirmResumeModal(resume)
    \/ closeResumeModal
    \/ \E i \in TaskIds : fetchRules(i, "ok", rules)
    \/ \E i \in TaskIds : fetchAll(i, Read(80), Read(0), "ok")
    \/ \E i \in TaskIds : Return(i, "ok")

SpecControls == InitControls /\ [][NextControls]_vars

\* =====================================================================
\* Properties
\* =====================================================================
\* "A future instant", stated on its own: stored and strictly after now.
InFuture(pausedUntil) == pausedUntil # Null /\ pausedUntil > now
Expired(pausedUntil) == pausedUntil # Null /\ pausedUntil <= now

TasksOf(wf) == {i \in 1..Len(tasks) : tasks[i].wf = wf}

\* The handler fn has run, in this step, up to its first await: it issued its
\* first call as a new workflow, or it opened its prompt.
Started(fn) ==
    \/ /\ Len(tasks') = Len(tasks) + 1
       /\ SubSeq(tasks', 1, Len(tasks)) = tasks
       /\ tasks'[Len(tasks')] = NewTask(fn, "none", 0, 0)
       /\ UNCHANGED <<lightOverrideModal, pumpManualModal>>
    \/ /\ tasks' = tasks
       /\ \/ fn \in {"handleLightOn", "handleLightOff"} /\ lightOverrideModal'.open
          \/ fn = "handlePumpOn" /\ pumpManualModal'.open

\* ---------------------------------------------------------------------
\* C1: confirmLightOverride issues pauseLightRulesForMinutes, fetchRules,
\* lightOn or lightOff (as the prompt's action says) and fetchAll in that
\* order, and whatever it issues after the pause request, it issues only
\* once that request has returned successfully.
LightOverrideOrder ==
    \A i \in TasksOf("confirmLightOverride") :
        LET t == tasks[i]
            order == <<"pauseLightRulesForMinutes", "fetchRules",
                       IF t.arg = "on" THEN "lightOn" ELSE "lightOff",
                       "fetchAll">>
        IN /\ Len(t.log) < 4
           /\ \A k \in 1..Len(t.log) : t.log[k][1] = order[k]
           /\ CurrentCall(t) = order[Len(t.log) + 1]
           /\ Len(t.log) >= 1 => t.log[1] = <<"pauseLightRulesForMinutes", "ok">>

\* an "off" override has gone through pause, re-fetch and lightOff and is
\* awaiting its final fetchAll
LightOverrideOrderWitness ==
    \E i \in TasksOf("confirmLightOverride") :
        /\ tasks[i].arg = "off"
        /\ Returned(tasks[i], "lightOff")
        /\ CurrentCall(tasks[i]) = "fetchAll"

\* ---------------------------------------------------------------------
\* C2: when the pause request of confirmLightOverride or confirmPumpManual
\* fails, the workflow ends there: the error banner shows the failure and no
\* further call (in particular no actuator command) is issued.
PauseFailureStopsOverride ==
    [][(lastReturn'.call \in PauseCalls /\ lastReturn'.res # "ok") =>
          /\ lastReturn'.wf \in {"confirmLightOverride", "confirmPumpManual"}
          /\ error' # "none"
          /\ error' = ErrMessage(lastReturn'.res)
          /\ \E i \in 1..Len(tasks) :
                /\ tasks[i].wf = lastReturn'.wf
                /\ tasks[i].log = <<>>
                /\ tasks' = RemoveAt(tasks, i)
          /\ UNCHANGED Remote]_vars

PauseFailureStopsOverrideWitness ==
    /\ lastReturn.wf = "confirmPumpManual"
    /\ lastReturn.call = "pausePumpRulesForMinutes"
    /\ lastReturn.res = "http"
    /\ error = "API 500"
    /\ TasksOf("confirmPumpManual") = {}

\* ---------------------------------------------------------------------
\* C3: a manual action attempted while the cached pause of its own class is
\* a future instant opens the resume dialog for that class, is stored as
\* the pending action and causes no device call; otherwise (also when only
\* the other class is paused) it runs at once and the gate is untouched.
Gated(type, pausedUntil, fn) ==
    /\ resumeModal' = [open |-> TRUE, type |-> type, pausedUntil |-> pausedUntil]
    /\ pendingResumeActionRef'.fn = fn
    /\ UNCHANGED <<tasks, lightOverrideModal, pumpManualModal, Remote, execCount>>

ResumeGateCapture ==
    [][/\ \A fn \in LightHandlers : runOrShowResumeLight(fn) =>
             IF InFuture(lightRulesPausedUntil)
             THEN Gated("light", lightRulesPausedUntil, fn)
             ELSE Started(fn) /\ UNCHANGED <<resumeModal, pendingResumeActionRef>>
       /\ \A fn \in PumpHandlers : runOrShowResumePump(fn) =>
             IF InFuture(pumpRulesPausedUntil)
             THEN Gated("pump", pumpRulesPausedUntil, fn)
             ELSE Started(fn) /\ UNCHANGED <<resumeModal, pendingResumeActionRef>>]_vars

\* Light On was captured while only the light class was paused
ResumeGateCaptureWitness ==
    /\ resumeModal.open /\ resumeModal.type = "light"
    /\ pendingResumeActionRef.fn = "handleLightOn"
    /\ InFuture(lightRulesPausedUntil) /\ pumpRulesPausedUntil = Null
    /\ tasks = <<>>

\* ---------------------------------------------------------------------
\* C4: "Resume rules" first issues the resume request of the class the
\* dialog shows, re-fetches the rules once that has succeeded, and a
\* resolution runs the pending action only when its re-fetch has returned.
ResumeCallOf(type) ==
    IF type = "light" THEN "resumeLightRules" ELSE "resumePumpRules"

ResumeOrder(t) ==
    /\ Len(t.log) < 2
    /\ CurrentCall(t) = <<ResumeCallOf(t.arg), "fetchRules">>[Len(t.log) + 1]
    /\ Len(t.log) = 1 => t.log[1] = <<ResumeCallOf(t.arg), "ok">>

ResumeThenRefetchThenRun ==
    [][/\ \A i \in 1..Len(tasks') :
             tasks'[i].wf = "confirmResumeModal" => ResumeOrder(tasks'[i])
       /\ confirmResumeModal(TRUE) =>
             /\ Len(tasks') = Len(tasks) + 1
             /\ SubSeq(tasks', 1, Len(tasks)) = tasks
             /\ tasks'[Len(tasks')].wf = "confirmResumeModal"
             /\ tasks'[Len(tasks')].arg = resumeModal.type
             /\ tasks'[Len(tasks')].log = <<>>
             /\ UNCHANGED <<pendingResumeActionRef, execCount,
                            lightOverrideModal, pumpManualModal>>
       /\ (execCount' # execCount /\ ~confirmResumeModal(FALSE)) =>
             /\ lastReturn'.wf = "confirmResumeModal"
             /\ lastReturn'.call = "fetchRules"
             /\ \E i \in TasksOf("confirmResumeModal") :
                   /\ tasks[i].log = <<<<ResumeCallOf(tasks[i].arg), "ok">>>>
                   /\ Cardinality(TasksOf("confirmResumeModal")') =
                         Cardinality(TasksOf("confirmResumeModal")) - 1]_vars

\* a pump resolution's re-fetch has just returned and the pending Pump Off
\* has begun
ResumeThenRefetchThenRunWitness ==
    /\ lastReturn = [wf |-> "confirmResumeModal", call |-> "fetchRules", res |-> "ok", arg |-> Null]
    /\ pendingResumeActionRef = NoAction
    /\ execCount[1] = 1
    /\ remotePumpPausedUntil = Null /\ pumpRulesPausedUntil = Null
    /\ \E i \in TasksOf("handlePumpOff") : tasks[i].log = <<>>

\* ---------------------------------------------------------------------
\* C5: when the resume request of a resolution fails, the error banner
\* shows the failure, the resolution ends, and the pending action is not
\* run: nothing is issued and no prompt opens.
ResumeFailureSkipsPending ==
    [][(lastReturn'.call \in ResumeCalls /\ lastReturn'.res # "ok") =>
          /\ lastReturn'.wf = "confirmResumeModal"
          /\ error' # "none"
          /\ error' = ErrMessage(lastReturn'.res)
          /\ \E i \in TasksOf("confirmResumeModal") :
                tasks[i].log = <<>> /\ tasks' = RemoveAt(tasks, i)
          /\ UNCHANGED <<execCount, lightOverrideModal, pumpManualModal, Remote>>]_vars

ResumeFailureSkipsPendingWitness ==
    /\ lastReturn = [wf |-> "confirmResumeModal",
                     call |-> "resumeLightRules", res |-> "http", arg |-> Null]
    /\ error = "API 500"
    /\ pendingResumeActionRef.fn = "handleLightOn"
    /\ execCount[pendingResumeActionRef.id] = 0
    /\ tasks = <<>>

\* ---------------------------------------------------------------------
\* C6: "Keep paused" takes the pending action out of the cell and runs it,
\* once and for the only time; it issues no resume request and no rules
\* fetch, and the device's pauses and the cached pause fields stay as they
\* were.
KeepPausedRunsOnce ==
    [][/\ confirmResumeModal(FALSE) =>
             LET a == pendingResumeActionRef
             IN /\ pendingResumeActionRef' = NoAction
                /\ a.id > 0 =>
                      /\ execCount[a.id] = 0
                      /\ execCount' = [execCount EXCEPT ![a.id] = 1]
                      /\ Started(a.fn)
                /\ a.id = 0 => UNCHANGED <<tasks, execCount>>
                /\ \A j \in 1..Len(tasks') :
                      CurrentCall(tasks'[j]) \in ResumeCalls \cup {"fetchRules"}
                         => j <= Len(tasks) /\ tasks'[j] = tasks[j]
                /\ UNCHANGED <<Remote, rules, lightRulesPausedUntil,
                               pumpRulesPausedUntil>>
       /\ \A id \in 1..MaxCaptures : execCount'[id] <= 1]_vars

\* Pump Off is under way although the pump class is still paused, on the
\* device and in the cache: it went through the gate and was kept paused
KeepPausedRunsOnceWitness ==
    /\ pendingResumeActionRef = NoAction
    /\ execCount[1] = 1
    /\ InFuture(pumpRulesPausedUntil) /\ InFuture(remotePumpPausedUntil)
    /\ lightRulesPausedUntil = Null
    /\ \E i \in TasksOf("handlePumpOff") : tasks[i].log = <<>>
    /\ Len(tasks) = 1

\* ---------------------------------------------------------------------
\* C7: closing the resume dialog empties the cell and does nothing else: no
\* call is issued and the rules, pause fields and sensor snapshot are kept;
\* an action discarded in this way is never run.
DismissDiscards ==
    [][/\ closeResumeModal =>
             /\ pendingResumeActionRef' = NoAction
             /\ ~resumeModal'.open
             /\ UNCHANGED <<tasks, rules, lightRulesPausedUntil,
                            pumpRulesPausedUntil, state, Remote, execCount,
                            lightOverrideModal, pumpManualModal, error, timer>>
       /\ \A id \in discarded' : execCount'[id] = 0]_vars

\* the one captured action was dismissed; nothing ran, nothing is in flight
DismissDiscardsWitness ==
    /\ captured = 1 /\ discarded = {1}
    /\ pendingResumeActionRef = NoAction
    /\ ~resumeModal.open
    /\ execCount[1] = 0
    /\ tasks = <<>>

\* ---------------------------------------------------------------------
\* C8: the gate holds at most one pending action: of all captured actions
\* only the one in the cell is neither run nor discarded; a capture while
\* one is pending puts the new action in the cell, and the replaced action
\* is never run.
Outstanding == {id \in 1..captured : execCount[id] = 0 /\ id \notin discarded}

LastRequestWins ==
    [][/\ \A fn \in LightHandlers \cup PumpHandlers :
             ((runOrShowResumeLight(fn) \/ runOrShowResumePump(fn))
                  /\ captured' = captured + 1) =>
                /\ pendingResumeActionRef'.fn = fn
                /\ pendingResumeActionRef'.id = captured'
                /\ pendingResumeActionRef.id > 0 =>
                      pendingResumeActionRef.id \in discarded'
                /\ UNCHANGED <<tasks, execCount>>
       /\ Outstanding' \subseteq {pendingResumeActionRef'.id}
       /\ \A id \in discarded' : execCount'[id] = 0]_vars

\* the first captured action was replaced by a second, which then ran
LastRequestWinsWitness ==
    /\ captured = 2
    /\ discarded = {1}
    /\ execCount[1] = 0 /\ execCount[2] = 1

PollingIntervalFollowsPause ==
    timer.on =>
        timer.intervalMs =
            IF InFuture(lightRulesPausedUntil) \/ InFuture(pumpRulesPausedUntil)
            THEN ShortIntervalMs ELSE BaseIntervalMs

\* ---------------------------------------------------------------------
\* The step starts a new workflow wf: it is among the tasks the step appended.
Issues(wf) ==
    \E j \in (Len(tasks) + 1)..Len(tasks') : tasks'[j] = NewTask(wf, "none", 0, 0)

\* Task i is the one whose awaited call returned in this step: it has moved
\* on to its next call, or it was the workflow's last call and the task is
\* gone.
Completes(i) ==
    /\ i \in 1..Len(tasks)
    /\ tasks[i].wf = lastReturn'.wf
    /\ CurrentCall(tasks[i]) = lastReturn'.call
    /\ LET t == tasks[i]
           logged == Append(t.log, <<lastReturn'.call, lastReturn'.res>>)
       IN \/ /\ i <= Len(tasks')
             /\ tasks'[i] = [t EXCEPT !.log = logged, !.resp = NoResp]
          \/ /\ Len(logged) = Len(Prog(t.wf, t.arg))
             /\ Len(tasks') >= Len(tasks) - 1
             /\ SubSeq(tasks', 1, Len(tasks) - 1) = RemoveAt(tasks, i)

\* null and a missing key both read as "no pause"
Reported(v) == IF v \in {Null, Undefined} THEN Null ELSE v

\* The pause fields of the response that the rules request of task t gets:
\* the body already on its way, or else what the device holds at this moment.
ReportedLight(t) ==
    IF t.resp.served THEN Reported(t.resp.light) ELSE remoteLightPausedUntil
ReportedPump(t) ==
    IF t.resp.served THEN Reported(t.resp.pump) ELSE remotePumpPausedUntil

\* C11: every tick of the polling timer starts both a sensor refresh
\* (fetchAll) and a rules fetch (fetchRules), with or without an active
\* pause.
EveryTickReadsRules ==
    [][Tick => Issues("fetchAll") /\ Issues("fetchRules")]_vars

\* ---------------------------------------------------------------------
\* C12: while a cached pause field is a future instant the running timer is
\* the one that re-fetches the rules, every tick then starts a rules fetch,
\* and when such a fetch succeeds with a response that reports a class as not
\* paused, the cached pause field of that class is null from then on; no
\* user action is involved.
TickWhilePausedRefetches ==
    [][/\ (timer.on /\ (InFuture(lightRulesPausedUntil)
                          \/ InFuture(pumpRulesPausedUntil))) =>
             /\ timer.paused
             /\ timer.intervalMs = ShortIntervalMs
       /\ (Tick /\ (InFuture(lightRulesPausedUntil)
                      \/ InFuture(pumpRulesPausedUntil))) =>
             Issues("fetchRules") /\ Issues("fetchAll")
       /\ (lastReturn'.wf = "fetchRules" /\ lastReturn'.res = "ok") =>
             \E i \in 1..Len(tasks) :
                /\ Completes(i)
                /\ ReportedLight(tasks[i]) = Null => lightRulesPausedUntil' = Null
                /\ ReportedPump(tasks[i]) = Null => pumpRulesPausedUntil' = Null]_vars

\* Still at instant 0, where the light pause cached from the start is a
\* future instant: another client has resumed the light rules, and a rules
\* fetch started by a tick has come back and cleared the cached field; with
\* no pause left in the cache the timer is back at the base interval.
TickWhilePausedRefetchesWitness ==
    /\ now = 0
    /\ lastReturn = [wf |-> "fetchRules", call |-> "fetchRules", res |-> "ok", arg |-> Null]
    /\ remoteLightPausedUntil = Null
    /\ lightRulesPausedUntil = Null /\ pumpRulesPausedUntil = Null
    /\ timer.intervalMs = BaseIntervalMs

\* ---------------------------------------------------------------------
\* C13: with the device's pauses fixed, the session kept and every tick and
\* fetch succeeding, the cached pause fields eventually equal the device's
\* and stay so.
PauseViewConverges ==
    <>[](/\ lightRulesPausedUntil = remoteLightPausedUntil
         /\ pumpRulesPausedUntil = remotePumpPausedUntil)

\* ---------------------------------------------------------------------
\* C14: when a rules fetch succeeds, the cached rules and both cached pause
\* fields are exactly those of its response, a pause field that is null or
\* missing in the response giving null, whatever the cache held before.
FetchRulesReplaces ==
    [][(lastReturn'.call = "fetchRules" /\ lastReturn'.res = "ok") =>
          \E i \in 1..Len(tasks) :
             /\ Completes(i)
             /\ lightRulesPausedUntil' = ReportedLight(tasks[i])
             /\ pumpRulesPausedUntil' = ReportedPump(tasks[i])
             /\ tasks[i].resp.served => rules' = tasks[i].resp.rules]_vars

\* A fetch has just replaced the light pause cached from the start by null
\* while the pump pause, which the same response still reported, is in the
\* cache with a rule list the scenario did not start with.
FetchRulesReplacesWitness ==
    /\ now = 0
    /\ lastReturn = [wf |-> "fetchRules", call |-> "fetchRules", res |-> "ok", arg |-> Null]
    /\ lightRulesPausedUntil = Null
    /\ pumpRulesPausedUntil = 1 /\ remotePumpPausedUntil = 1
    /\ rules # <<>>

\* ---------------------------------------------------------------------
\* C15: when a rules fetch fails, the rule list is emptied, both cached pause
\* fields become null and the rules error is set; and as long as both
\* cached pause fields are null the timer (which runs while the session
\* lasts) has the base interval, no manual control opens the resume dialog,
\* and only a successful rules fetch ends that.
BothNull == lightRulesPausedUntil = Null /\ pumpRulesPausedUntil = Null

FetchRulesFailureClears ==
    [][/\ (lastReturn'.call = "fetchRules" /\ lastReturn'.res # "ok") =>
             /\ rules' = <<>>
             /\ BothNull'
             /\ rulesError' # "none"
             /\ timer'.on <=> token'
             /\ timer'.on => timer'.intervalMs = BaseIntervalMs /\ ~timer'.paused
       /\ BothNull =>
             /\ timer.on => timer.intervalMs = BaseIntervalMs
             /\ \A fn \in LightHandlers \cup PumpHandlers :
                   (runOrShowResumeLight(fn) \/ runOrShowResumePump(fn)) =>
                      UNCHANGED <<resumeModal, pendingResumeActionRef, captured>>
             /\ resumeModal'.open => resumeModal.open
             /\ ~BothNull' =>
                   lastReturn'.call = "fetchRules" /\ lastReturn'.res = "ok"]_vars

\* The device holds a light pause that is still ahead, but the rules fetch
\* failed: the cache shows no rules and no pause, the rules error is up, the
\* timer is at the base interval, and Light On went straight to the device.
FetchRulesFailureClearsWitness ==
    /\ InFuture(remoteLightPausedUntil)
    /\ BothNull /\ rules = <<>>
    /\ rulesError = "API 500"
    /\ timer.intervalMs = BaseIntervalMs
    /\ captured = 0 /\ ~resumeModal.open
    /\ \E i \in TasksOf("handleLightOn") : tasks[i].log = <<>>

FailedReadKeepsValue ==
    [][\A i \in TaskIds, ps \in PumpReadings, res \in {"ok", "unauth"} :
          fetchAll(i, ReadFailed, ps, res) =>
             state'.lightBrightness = state.lightBrightness]_vars

\* ---------------------------------------------------------------------
\* C18: a 401 answer to any device call drops the token in the step in
\* which the call fails and stops the timer; a tick fires only while a token
\* is held, and only a login brings a token back.
UnauthorizedEndsPolling ==
    [][/\ (lastReturn'.res = "unauth" /\ mounted) => ~token' /\ ~timer'.on
       /\ Tick => token
       /\ ~token => ~timer.on
       /\ (~token /\ token') => handleLogin]_vars

\* A rules fetch was answered 401: the session is over, the rules error
\* shows it, and no timer runs although the component is still mounted.
UnauthorizedEndsPollingWitness ==
    /\ lastReturn = [wf |-> "fetchRules", call |-> "fetchRules", res |-> "unauth", arg |-> Null]
    /\ ~token /\ mounted
    /\ rulesError = "API 401"
    /\ timer = NoTimer

\* ---------------------------------------------------------------------
\* C19: without a token, and after the component has unmounted, no timer
\* runs and no tick fires; the step that ends the session or unmounts the
\* component leaves every request that is in flight where it was.
TimerTornDown ==
    [][/\ (~token \/ ~mounted) => ~timer.on
       /\ Tick => token /\ mounted
       /\ (handleLogout \/ Unmount) => ~timer'.on /\ tasks' = tasks
       /\ (timer.on /\ ~timer'.on) =>
             \/ tasks' = tasks
             \/ \E i \in 1..Len(tasks) :
                   /\ Completes(i)
                   /\ \A j \in 1..Len(tasks) \ {i} :
                         \E k \in 1..Len(tasks') : tasks'[k] = tasks[j]]_vars

\* The user logged out while a rules request, already answered by the
\* device, was on its way: the timer is gone, the request is still there.
TimerTornDownWitness ==
    /\ ~token /\ mounted
    /\ timer = NoTimer
    /\ lastReturn = NoReturn
    /\ \E i \in TasksOf("fetchRules") : tasks[i].resp.served
    /\ rulesError = "none" /\ error = "none"

\* ---------------------------------------------------------------------
\* C20: for a range that ends later the same day (end after start, counted
\* in minutes since midnight) isTimeInRange says yes exactly for start <= now
\* < end.
MinutesSinceMidnight(t) == 60 * t[1] + t[2]

NoEndRange ==
    (/\ probe.fn = "isTimeInRange" /\ probe.done
     /\ probe.end = NoTime) =>
        (probe.result <=> probe.now = probe.start)

\* a rule that starts at 09:15 and has no end is not active at 12:00
NoEndRangeWitness ==
    /\ probe.fn = "isTimeInRange" /\ probe.done
    /\ probe.end = NoTime
    /\ probe.start = <<9, 15>> /\ probe.now = <<12, 0>>
    /\ probe.result = FALSE

\* ---------------------------------------------------------------------
\* C23: the effective brightness is the largest brightness_pct among exactly
\* the rules that are light rules, not disabled, not paused and whose range
\* contains the current minute; pump rules, disabled rules and paused rules
\* never change the answer.
Counts(r, t) ==
    /\ r.type = "light"
    /\ r.enabled # "false"
    /\ r.paused # "true"
    /\ isTimeInRange(HHMM(ClockOrigin + t), r.start_time, r.end_time)

Wanted(r) == IF r.brightness_pct = Null THEN 0 ELSE r.brightness_pct

Counting == { i \in 1..Len(probe.rules) : Counts(probe.rules[i], probe.at) }

Asked == probe.fn = "getEffectiveLightBrightnessFromRules" /\ probe.done

EffectiveIsMaxOfActive ==
    (Asked /\ Counting # {}) =>
        /\ \E i \in Counting : probe.result = Wanted(probe.rules[i])
        /\ \A i \in Counting : probe.result >= Wanted(probe.rules[i])

\* 08:00-10:00 at 40 % and 09:00-09:30 at 80 %, with a paused 100 % rule
\* between them, give 80 at 09:15
EffectiveIsMaxOfActiveWitness ==
    /\ Asked /\ probe.at = 0
    /\ probe.rules = << LightRule(<<8, 0>>, <<10, 0>>, 40),
                         [LightRule(<<8, 0>>, <<10, 0>>, FullSpeed) EXCEPT !.paused = "true"],
                         LightRule(<<9, 0>>, <<9, 30>>, 80) >>
    /\ probe.result = 80

\* ---------------------------------------------------------------------
\* C24: the effective brightness is null exactly when no enabled, unpaused
\* light rule contains the current minute; a matching 0 % rule gives 0, which
\* is not null.
NullOnlyWithoutActiveRule ==
    Asked =>
        /\ probe.result = Null <=> Counting = {}
        /\ (Counting # {} /\ \A i \in Counting : Wanted(probe.rules[i]) = 0)
              => probe.result = 0

\* the only rule in force wants the lamp off: the answer is 0
NullOnlyWithoutActiveRuleWitness ==
    /\ Asked
    /\ probe.rules = << LightRule(<<10, 0>>, <<12, 0>>, FullSpeed),
                         LightRule(<<8, 0>>, <<10, 0>>, 0) >>
    /\ probe.result = 0 /\ probe.result # Null

\* ---------------------------------------------------------------------
\* C25: the effective brightness does not depend on the order of the rule
\* list: every reordering of the same rules gives the same answer at the
\* same minute.
OrderIndependent ==
    Asked => probe.reordered = {probe.result}

\* three rules in force with three different brightnesses, lowest last
OrderIndependentWitness ==
    /\ Asked
    /\ probe.rules = << LightRule(<<9, 0>>, <<9, 30>>, 80),
                         LightRule(<<8, 0>>, <<10, 0>>, 40),
                         LightRule(<<8, 0>>, <<10, 0>>, 0) >>
    /\ probe.reordered = {80}

\* ---------------------------------------------------------------------
\* C26: a click on "light on" (no light pause cached) opens the override
\* prompt exactly when the effective brightness of the rules is 0, a click
\* on "light off" exactly when it is above 0; in every other case, "no rule
\* in force" included, the command goes to the device at once and no pause
\* request is issued.
LightClickConflicts(fn, eff) ==
    IF fn = "handleLightOn" THEN eff = 0 ELSE eff # Null /\ eff > 0

LightPromptOnlyOnConflict ==
    [][\A fn \in {"handleLightOn", "handleLightOff"} :
          (runOrShowResumeLight(fn) /\ ~InFuture(lightRulesPausedUntil)) =>
             IF LightClickConflicts(fn, getEffectiveLightBrightnessFromRules(rules))
             THEN /\ lightOverrideModal'.open
                  /\ lightOverrideModal'.action =
                        (IF fn = "handleLightOn" THEN "on" ELSE "off")
                  /\ tasks' = tasks
             ELSE /\ lightOverrideModal' = lightOverrideModal
                  /\ Len(tasks') = Len(tasks) + 1
                  /\ SubSeq(tasks', 1, Len(tasks)) = tasks
                  /\ tasks'[Len(tasks')].wf = fn
                  /\ CurrentCall(tasks'[Len(tasks')]) =
                        (IF fn = "handleLightOn" THEN "lightOn" ELSE "lightOff")
                  /\ \A k \in 1..Len(Prog(fn, "none")) :
                        Prog(fn, "none")[k] \notin PauseCalls]_vars

\* with no rule in force "light on" went straight to the device
LightPromptOnlyOnConflictWitness ==
    /\ lastReturn = NoReturn
    /\ rules = <<>>
    /\ ~lightOverrideModal.open
    /\ ~InFuture(lightRulesPausedUntil)
    /\ \E i \in TasksOf("handleLightOn") :
          tasks[i].log = <<>> /\ CurrentCall(tasks[i]) = "lightOn"

\* ---------------------------------------------------------------------
\* C27: a click on "pump on" (no pump pause cached) while the cached pump
\* speed is 0 or unknown opens the manual-watering prompt and sends nothing
\* to the device, and closing the prompt without confirming sends nothing
\* either; only with a running pump does the click send setPumpSpeed(100)
\* and, once that has succeeded, pumpOn.
PumpOnAsksWhenOff ==
    [][/\ (runOrShowResumePump("handlePumpOn") /\ ~InFuture(pumpRulesPausedUntil)) =>
             IF state.pumpSpeed = Null \/ state.pumpSpeed = 0
             THEN /\ pumpManualModal'.open
                  /\ tasks' = tasks
             ELSE /\ pumpManualModal' = pumpManualModal
                  /\ Len(tasks') = Len(tasks) + 1
                  /\ SubSeq(tasks', 1, Len(tasks)) = tasks
                  /\ tasks'[Len(tasks')].wf = "handlePumpOn"
                  /\ CurrentCall(tasks'[Len(tasks')]) = "setPumpSpeed"
       /\ cancelPumpManual => tasks' = tasks
       /\ (lastReturn'.wf = "handlePumpOn" /\ lastReturn'.call = "setPumpSpeed") =>
             lastReturn'.arg = FullSpeed
       /\ \A i \in TasksOf("handlePumpOn") :
             (CurrentCall(tasks[i]) # "pumpOn" /\ i \in 1..Len(tasks')
                /\ tasks'[i].wf = "handlePumpOn"
                /\ CurrentCall(tasks'[i]) = "pumpOn") =>
                   tasks'[i].log = << <<"setPumpSpeed", "ok">> >>]_vars

\* the pump's speed could not be read: the click opened the prompt and
\* nothing is on its way to the device
PumpOnAsksWhenOffWitness ==
    /\ lastReturn = NoReturn
    /\ state.pumpSpeed = Null
    /\ pumpManualModal.open
    /\ tasks = <<>>

\* ---------------------------------------------------------------------
\* C28: confirmPumpManual issues pausePumpRulesForMinutes(N),
\* setManualPumpOffInMinutes(N), fetchRules, setPumpSpeed(100), pumpOn and
\* fetchAll in that order, the pause and the auto-off carrying the same N
\* (the minutes resolved from the prompt); pumpOn is issued only after the
\* pause, the auto-off and the set-speed request have all succeeded.
PumpManualOrder ==
    /\ [](\A i \in TasksOf("confirmPumpManual") :
            LET t == tasks[i]
                order == <<"pausePumpRulesForMinutes", "setManualPumpOffInMinutes",
                           "fetchRules", "setPumpSpeed", "pumpOn", "fetchAll">>
            IN /\ Len(t.log) < 6
               /\ \A k \in 1..Len(t.log) : t.log[k][1] = order[k]
               /\ CurrentCall(t) = order[Len(t.log) + 1]
               /\ \A k \in 1..Len(t.log) : k # 3 => t.log[k][2] = "ok")
    /\ [][lastReturn'.wf = "confirmPumpManual" =>
            \E i \in TasksOf("confirmPumpManual") :
               LET t == tasks[i]
               IN /\ CurrentCall(t) = lastReturn'.call
                  /\ lastReturn'.call \in {"pausePumpRulesForMinutes",
                                            "setManualPumpOffInMinutes"} =>
                        lastReturn'.arg = t.minutes
                  /\ (lastReturn'.call = "pausePumpRulesForMinutes"
                         /\ lastReturn'.res = "ok") =>
                        remotePumpPausedUntil' = now + t.minutes
                  /\ lastReturn'.call = "setPumpSpeed" => lastReturn'.arg = FullSpeed]_vars

\* a one-minute watering: the device holds the pause until minute 1, the
\* auto-off has been accepted with that same minute count, the pump has
\* been started and the final refresh is on its way
PumpManualOrderWitness ==
    /\ remotePumpPausedUntil = 1
    /\ \E i \in TasksOf("confirmPumpManual") :
          /\ tasks[i].minutes = 1
          /\ Returned(tasks[i], "setManualPumpOffInMinutes")
          /\ Returned(tasks[i], "pumpOn")
          /\ CurrentCall(tasks[i]) = "fetchAll"

\* ---------------------------------------------------------------------
\* C29: whatever the minutes field holds (any integer, negative, zero or
\* huge, nothing at all, or text that is no number) a confirmed prompt is
\* never turned down: it issues its pause request, and the minutes that
\* request carries are an integer in 1..1440 for the light and in 1..120 for
\* the pump.
MinutesCap(wf) ==
    IF wf = "confirmLightOverride" THEN LightMinutesMax ELSE PumpMinutesMax

MinutesAlwaysInRange ==
    /\ [](\A i \in TasksOf("confirmLightOverride") \cup TasksOf("confirmPumpManual") :
            tasks[i].minutes \in 1..MinutesCap(tasks[i].wf))
    /\ []((lightOverrideModal.open /\ Len(tasks) < MaxTasks) => ENABLED confirmLightOverride)
    /\ []((pumpManualModal.open /\ Len(tasks) < MaxTasks) => ENABLED confirmPumpManual)
    /\ [][/\ (confirmLightOverride \/ confirmPumpManual) =>
               /\ Len(tasks') = Len(tasks) + 1
               /\ CurrentCall(tasks'[Len(tasks')]) \in PauseCalls
               /\ error' = error
         /\ lastReturn'.call \in PauseCalls =>
               lastReturn'.arg \in 1..MinutesCap(lastReturn'.wf)]_vars

\* the user typed -5 into the light prompt: the pause went out, and was
\* accepted, for one minute
MinutesAlwaysInRangeWitness ==
    /\ lightOverrideModal.minutes = TextOf(0 - 5)
    /\ lastReturn.call = "pauseLightRulesForMinutes"
    /\ lastReturn.res = "ok"
    /\ lastReturn.arg = 1
    /\ remoteLightPausedUntil = now + 1

\* ---------------------------------------------------------------------
\* C30: the minutes a confirmed prompt uses are min(max(n, 1), hi) for every
\* integer n typed into the field (so 0 and negative numbers become 1, too
\* large numbers become hi = 1440 or 120), and the default (60 or 5) for a
\* text that is no number.
Clamp(n, hi) == Min(Max(n, 1), hi)

MinutesAreClamped ==
    [][/\ confirmLightOverride =>
             /\ \A n \in DurationInts :
                   lightOverrideModal.minutes = TextOf(n) =>
                      tasks'[Len(tasks')].minutes = Clamp(n, LightMinutesMax)
             /\ lightOverrideModal.minutes \in {<<>>, <<"a", "b", "c">>} =>
                   tasks'[Len(tasks')].minutes = LightMinutesDefault
       /\ confirmPumpManual =>
             /\ \A n \in DurationInts :
                   pumpManualModal.minutes = TextOf(n) =>
                      tasks'[Len(tasks')].minutes = Clamp(n, PumpMinutesMax)
             /\ pumpManualModal.minutes \in {<<>>, <<"a", "b", "c">>} =>
                   tasks'[Len(tasks')].minutes = PumpMinutesDefault]_vars

\* ---------------------------------------------------------------------
\* C31: closing an override prompt without confirming (cancelLightOverride,
\* cancelPumpManual) only closes the prompt: nothing is sent to the device,
\* and the cached rules, pause fields and sensor snapshot stay as they were.
CancelOnlyCloses ==
    [][/\ cancelLightOverride =>
             /\ ~lightOverrideModal'.open
             /\ tasks' = tasks
             /\ UNCHANGED <<rules, lightRulesPausedUntil, pumpRulesPausedUntil,
                            state, Remote>>
       /\ cancelPumpManual =>
             /\ ~pumpManualModal'.open
             /\ tasks' = tasks
             /\ UNCHANGED <<rules, lightRulesPausedUntil, pumpRulesPausedUntil,
                            state, Remote>>]_vars

\* the user typed 1 into the light prompt and closed it: the text is still
\* in the closed prompt, nothing is on its way and the device holds no pause
CancelOnlyClosesWitness ==
    /\ lastReturn = NoReturn
    /\ ~lightOverrideModal.open
    /\ lightOverrideModal.minutes = <<"1">>
    /\ tasks = <<>>
    /\ remoteLightPausedUntil = Null /\ lightRulesPausedUntil = Null

\* ---------------------------------------------------------------------
\* the messages a failed pause request can put on the banner
PauseFailureMessages == { ErrMessage(res) : res \in Failures }

\* C32: when an override's pause request has succeeded and its actuator
\* command then fails, the error shown is not one of the errors shown when
\* the pause request itself fails: the user can tell that the rules are now
\* paused although the manual action did not take effect.
PartialSuccessIsDistinct ==
    [][(/\ lastReturn'.wf \in {"confirmLightOverride", "confirmPumpManual"}
        /\ lastReturn'.call \in ActuatorCalls
        /\ lastReturn'.res # "ok") =>
           error' \notin PauseFailureMessages]_vars

\* ---------------------------------------------------------------------
\* C33: the cached lightRulesPausedUntil and pumpRulesPausedUntil change only
\* when a fetchRules completes (to what the response says, or to null when
\* it failed); a pause or resume request being issued or answered, a dialog
\* or prompt being opened, resolved or dismissed, and a sensor refresh leave
\* both as they were.
PauseFieldsOnlyFromFetchRules ==
    [][/\ (lightRulesPausedUntil' # lightRulesPausedUntil
             \/ pumpRulesPausedUntil' # pumpRulesPausedUntil) =>
             /\ lastReturn'.call = "fetchRules"
             /\ lastReturn'.res # "ok" =>
                   lightRulesPausedUntil' = Null /\ pumpRulesPausedUntil' = Null
             /\ lastReturn'.res = "ok" =>
                   /\ lightRulesPausedUntil' = remoteLightPausedUntil
                   /\ pumpRulesPausedUntil' = remotePumpPausedUntil
       /\ (\/ \E fn \in LightHandlers : runOrShowResumeLight(fn)
           \/ confirmLightOverride \/ cancelLightOverride
           \/ \E resume \in BOOLEAN : confirmResumeModal(resume)
           \/ closeResumeModal
           \/ lastReturn'.call \in PauseCalls \cup ResumeCalls \cup {"fetchAll"}) =>
             UNCHANGED <<lightRulesPausedUntil, pumpRulesPausedUntil>>]_vars

\* the device has accepted the resume request and holds no pause any more,
\* while the dashboard, whose re-fetch is still on its way, shows the pause
PauseFieldsOnlyFromFetchRulesWitness ==
    /\ lastReturn.call = "resumeLightRules" /\ lastReturn.res = "ok"
    /\ remoteLightPausedUntil = Null
    /\ lightRulesPausedUntil = 1

DirectFailureLeavesState ==
    [][(/\ lastReturn'.wf \in LightHandlers \cup PumpHandlers
        /\ lastReturn'.call \in ActuatorCalls
        /\ lastReturn'.res # "ok") =>
           /\ error' # "none"
           /\ error' = ErrMessage(lastReturn'.res)
           /\ \E i \in TasksOf(lastReturn'.wf) :
                 /\ CurrentCall(tasks[i]) = lastReturn'.call
                 /\ tasks' = RemoveAt(tasks, i)
           /\ UNCHANGED <<rules, lightRulesPausedUntil, pumpRulesPausedUntil,
                          rulesError, state>>]_vars

\* "pump on" set the speed, then the device refused pumpOn: the banner shows
\* it, nothing is on its way, the pump still reads as running
DirectFailureLeavesStateWitness ==
    /\ lastReturn.wf = "handlePumpOn"
    /\ lastReturn.call = "pumpOn"
    /\ lastReturn.res = "http"
    /\ error = "API 500"
    /\ tasks = <<>>
    /\ state.pumpSpeed = FullSpeed

\* ---------------------------------------------------------------------
\* this step ends resolution i, which was started for captured action id
CompletesFor(i, id) ==
    /\ tasks[i].wf = "confirmResumeModal"
    /\ tasks[i].forId = id
    /\ lastReturn'.wf = "confirmResumeModal"
    /\ Len(tasks') >= Len(tasks) - 1
    /\ SubSeq(tasks', 1, Len(tasks) - 1) = RemoveAt(tasks, i)

\* C35: a captured action is run only by the user's choice in the dialog
\* that was opened for it: by "Keep paused" while it is the action in the
\* cell, or by the completion of the "Resume rules" resolution that was
\* started for it; a resolution started for an earlier action never runs
\* an action captured after it.
RunOnlyByOwnDialog ==
    [][\A id \in 1..MaxCaptures :
          execCount'[id] > execCount[id] =>
             \/ confirmResumeModal(FALSE) /\ pendingResumeActionRef.id = id
             \/ \E i \in 1..Len(tasks) : CompletesFor(i, id)]_vars

\* ---------------------------------------------------------------------
\* C37: no captured action is run more than once, however captures,
\* "Resume rules" and "Keep paused" resolutions (their calls still in
\* flight or not) and dismissals interleave.
RunAtMostOnce == \A id \in 1..MaxCaptures : execCount[id] <= 1

\* the second captured action has been run while the resolution that was
\* started for it is still awaiting its calls
RunAtMostOnceWitness ==
    /\ captured = 2
    /\ execCount[2] = 1
    /\ pendingResumeActionRef = NoAction
    /\ \E i \in TasksOf("confirmResumeModal") : tasks[i].forId = 2

\* ---------------------------------------------------------------------
\* C38: whenever the resume dialog is closed and no confirmResumeModal
\* resolution is in progress, the cell holds no action; this is so after
\* every outcome of a resolution, a failed resume request included.
NoActionRetained ==
    (~resumeModal.open /\ TasksOf("confirmResumeModal") = {}) =>
        pendingResumeActionRef = NoAction

\* ---------------------------------------------------------------------
\* the click only opens the resume dialog
ClickIsHeld ==
    /\ resumeModal'.open
    /\ UNCHANGED <<tasks, lightOverrideModal, pumpManualModal>>

\* C36: while a class's cached pause lies in the future, a click on any of
\* its controls (Light On, Light Off, the slider; Pump On, Pump Off, Manual
\* water) opens the resume dialog and nothing else: no prompt opens and no
\* call is issued by the click.
EveryControlIsGated ==
    [][/\ \A fn \in LightHandlers :
             (runOrShowResumeLight(fn) /\ InFuture(lightRulesPausedUntil))
                => ClickIsHeld
       /\ \A fn \in PumpHandlers :
             (runOrShowResumePump(fn) /\ InFuture(pumpRulesPausedUntil))
                => ClickIsHeld
       /\ (openPumpManual /\ InFuture(pumpRulesPausedUntil)) => ClickIsHeld]_vars

\* ---------------------------------------------------------------------
\* the two workflows that pause a class before acting
OverrideWorkflows == {"confirmLightOverride", "confirmPumpManual"}

\* C39: when the rules re-fetch inside confirmLightOverride or
\* confirmPumpManual fails, the workflow goes on: the rule list is emptied,
\* both cached pause fields become null and the rules error is set, and the
\* workflow's next call, the actuator command, is issued; the device still
\* holds the pause that was accepted.
RefetchFailureGoesOn ==
    [][(/\ lastReturn'.wf \in OverrideWorkflows
        /\ lastReturn'.call = "fetchRules"
        /\ lastReturn'.res # "ok") =>
           /\ rules' = <<>>
           /\ lightRulesPausedUntil' = Null
           /\ pumpRulesPausedUntil' = Null
           /\ rulesError' # "none"
           /\ \E i \in TasksOf(lastReturn'.wf) :
                 /\ CurrentCall(tasks[i]) = "fetchRules"
                 /\ i <= Len(tasks')
                 /\ tasks'[i].wf = tasks[i].wf
                 /\ tasks'[i].log =
                       Append(tasks[i].log, <<"fetchRules", lastReturn'.res>>)
                 /\ CurrentCall(tasks'[i]) \in ActuatorCalls
           /\ lastReturn'.wf = "confirmLightOverride" =>
                 InFuture(remoteLightPausedUntil')
           /\ lastReturn'.wf = "confirmPumpManual" =>
                 InFuture(remotePumpPausedUntil')]_vars

\* manual watering is at its setPumpSpeed call after a failed re-fetch: the
\* device pauses the pump rules, the client shows none
RefetchFailureGoesOnWitness ==
    /\ lastReturn.wf = "confirmPumpManual"
    /\ lastReturn.call = "fetchRules"
    /\ lastReturn.res = "http"
    /\ \E i \in TasksOf("confirmPumpManual") :
          /\ CurrentCall(tasks[i]) = "setPumpSpeed"
          /\ tasks[i].log[Len(tasks[i].log)] = <<"fetchRules", "http">>
    /\ rules = <<>>
    /\ rulesError = "API 500"
    /\ pumpRulesPausedUntil = Null
    /\ InFuture(remotePumpPausedUntil)

====
